---- MODULE Spec2Model ----
(***************************************************************************)
(* Model of the XML-Curl control plane: the dialplan resolver              *)
(* (controllers/dialplanController.js), the XML emitter                    *)
(* (utils/xmlGenerator.js), the CNAM client (services/signalwireService.js)*)
(* and the store reads it uses (services/tenantService.js,                 *)
(* services/globalConfigService.js).                                       *)
(*                                                                         *)
(* Strings are sequences of atoms.  An atom is a single character, or a    *)
(* fixed word/literal of the source that holds no XML-special and no       *)
(* regex-special character ("extension", "caller_id_name=", ...).  A text  *)
(* is always cut into atoms the same way, so equality of sequences is      *)
(* equality of strings.  The JavaScript value undefined is Undef.          *)
(***************************************************************************)
EXTENDS Integers, Sequences, FiniteSets, TLC

\* ------------------------------------------------------------------------
\* JavaScript values
\* ------------------------------------------------------------------------

Undef == <<"#undefined">>

\* JS truthiness of a string-or-undefined value
Truthy(v) == v # Undef /\ v # <<>>

\* a || b
OrElse(a, b) == IF Truthy(a) THEN a ELSE b

\* String(v), also what a template literal `${v}` yields
String(v) == IF v = Undef THEN <<"undefined">> ELSE v

Digit == {"0", "1", "2", "3", "4", "5", "6", "7", "8", "9"}

LowerLetter ==
    {"a", "b", "c", "d", "e", "f", "g", "h", "i", "j", "k", "l", "m",
     "n", "o", "p", "q", "r", "s", "t", "u", "v", "w", "x", "y", "z"}

UpperLetter == {"A", "B", "E", "X"}

\* words kept as one atom; they hold letters only, in lower case
WordAtom == {"extension", "context", "action", "default", "public", "features",
             "undefined", "unknown"}

IsAlnum(c) == c \in Digit \cup LowerLetter \cup UpperLetter \cup WordAtom

ToLower(c) ==
    CASE c = "A" -> "a"
      [] c = "B" -> "b"
      [] c = "E" -> "e"
      [] c = "X" -> "x"
      [] OTHER -> c

RECURSIVE Concat(_)
Concat(ss) == IF ss = <<>> THEN <<>> ELSE Head(ss) \o Concat(Tail(ss))

RECURSIVE AlnumLower(_)
\* s.replace(/[^a-zA-Z0-9]/g, "").toLowerCase()
AlnumLower(s) ==
    IF s = <<>> THEN <<>>
    ELSE (IF IsAlnum(Head(s)) THEN <<ToLower(Head(s))>> ELSE <<>>) \o AlnumLower(Tail(s))

StartsWith(s, p) == Len(s) >= Len(p) /\ SubSeq(s, 1, Len(p)) = p

\* s.trim()
RECURSIVE TrimLeft(_)
TrimLeft(s) == IF s # <<>> /\ Head(s) = " " THEN TrimLeft(Tail(s)) ELSE s

RECURSIVE TrimRight(_)
TrimRight(s) ==
    IF s # <<>> /\ s[Len(s)] = " " THEN TrimRight(SubSeq(s, 1, Len(s) - 1)) ELSE s

Trim(s) == TrimRight(TrimLeft(s))

\* number to decimal text
RECURSIVE NumToStr(_)
NumToStr(n) ==
    LET d == <<"0", "1", "2", "3", "4", "5", "6", "7", "8", "9">>
    IN  IF n < 10 THEN <<d[n + 1]>> ELSE NumToStr(n \div 10) \o <<d[(n % 10) + 1]>>

\* ------------------------------------------------------------------------
\* controllers/dialplanController.js: constants and utility functions
\* ------------------------------------------------------------------------

SIGNALWIRE_TRUNK_PROFILE_NAME == <<"signalwire">>
IVR_SOUND_PATH_INVALID_DOMAIN == <<"ivr/ivr-call_cannot_be_completed_as_dialed.wav">>
IVR_SOUND_PATH_CALL_CANNOT_BE_COMPLETED == <<"ivr/ivr-call_cannot_be_completed_as_dialed.wav">>
IVR_SOUND_PATH_INVALID_ENTRY == <<"ivr/ivr-that_was_an_invalid_entry.wav">>
VOICEMAIL_CHECK_EXTENSION == <<"*", "9", "8">>

\* the position of the first "@" followed by a character other than " " and ">",
\* 0 when there is none: where /@([^ >]+)/ matches first
RECURSIVE AtPos(_, _)
AtPos(s, i) ==
    IF i >= Len(s) THEN 0
    ELSE IF s[i] = "@" /\ s[i + 1] \notin {" ", ">"} THEN i
    ELSE AtPos(s, i + 1)

\* the longest run of characters other than " " and ">" from position i
RECURSIVE RunFrom(_, _)
RunFrom(s, i) ==
    IF i > Len(s) \/ s[i] \in {" ", ">"} THEN <<>> ELSE <<s[i]>> \o RunFrom(s, i + 1)

extractDomain(s) ==
    IF ~Truthy(s) THEN Undef
    ELSE LET p == AtPos(s, 1) IN IF p = 0 THEN Undef ELSE RunFrom(s, p + 1)

normalizeStringForComparison(str) ==
    IF ~Truthy(str) THEN <<>> ELSE AlnumLower(String(str))

normalizePhoneNumber(phoneNumber) ==
    IF ~Truthy(phoneNumber) THEN <<>>
    ELSE LET normalized == Trim(String(phoneNumber))
         IN  IF StartsWith(normalized, <<"+", "1">>)
             THEN SubSeq(normalized, 3, Len(normalized))
             ELSE normalized

RegExpSpecial == {".", "*", "+", "?", "^", "$", "{", "}", "(", ")", "|", "[", "]", "\\"}

RECURSIVE escapeRegExp(_)
escapeRegExp(string) ==
    LET s == String(string)
    IN  IF s = <<>> THEN <<>>
        ELSE (IF Head(s) \in RegExpSpecial THEN <<"\\", Head(s)>> ELSE <<Head(s)>>)
             \o escapeRegExp(Tail(s))

\* `^${escapeRegExp(d)}$`
Anchored(d) == <<"^">> \o escapeRegExp(d) \o <<"$">>

\* ------------------------------------------------------------------------
\* utils/xmlGenerator.js
\* ------------------------------------------------------------------------

RECURSIVE _escapeAttribute(_)
_escapeAttribute(text) ==
    LET s == String(text)
        Esc(c) == CASE c = "<" -> <<"&", "l", "t", ";">>
                    [] c = ">" -> <<"&", "g", "t", ";">>
                    [] c = "&" -> <<"&", "a", "m", "p", ";">>
                    [] c = "'" -> <<"&", "a", "p", "o", "s", ";">>
                    [] c = "\"" -> <<"&", "q", "u", "o", "t", ";">>
                    [] OTHER -> <<c>>
    IN  IF s = <<>> THEN <<>> ELSE Esc(Head(s)) \o _escapeAttribute(Tail(s))

\* an action of an extension program; data may be Undef ({ application: "answer" })
Act(app, data) == [application |-> app, data |-> data]

\* the value null where an extension program is expected
NullExt == [isNull |-> TRUE]
IsNullExt(e) == "isNull" \in DOMAIN e

Ext(name, field, expression, actions) ==
    [name |-> name, condition_field |-> field, expression |-> expression, actions |-> actions]

XmlProlog ==
    <<"<?", "xml", " version=", "\"", "1.0", "\"", " encoding=", "\"", "UTF-8", "\"",
      " standalone=", "\"", "no", "\"", "?>", "\n",
      "<", "document", " type=", "\"", "freeswitch/xml", "\"", ">",
      "<", "section", " name=", "\"", "dialplan", "\"", ">">>

XmlEpilog == <<"</", "context", ">", "</", "section", ">", "</", "document", ">">>

RECURSIVE ActionsXml(_)
ActionsXml(actions) ==
    IF actions = <<>> THEN <<>>
    ELSE LET action == Head(actions)
             safeApplication == _escapeAttribute(OrElse(action.application, <<>>))
             actionData == OrElse(action.data, <<>>)
         IN  <<"<", "action", " application=", "\"">> \o safeApplication
             \o <<"\"", " data=", "\"">> \o actionData \o <<"\"", "/>">>
             \o ActionsXml(Tail(actions))

\* the "Defensive check" of generateDialplanXml; actions are always arrays here
InvalidExtension(e) ==
    \/ IsNullExt(e)
    \/ ~Truthy(e.name)
    \/ ~Truthy(e.condition_field)
    \/ ~Truthy(e.expression)

XmlFallbackExtension(rawBody) ==
    LET safeDestination ==
            IF Truthy(rawBody["Caller-Destination-Number"])
            THEN _escapeAttribute(rawBody["Caller-Destination-Number"])
            ELSE <<"unknown">>
    IN  Ext(<<"xml_generation_error_fallback">>, <<"destination_number">>,
            <<"^">> \o safeDestination \o <<"$">>,
            <<Act(<<"answer">>, Undef), Act(<<"hangup">>, <<"NORMAL_CLEARING">>)>>)

\* the extension object generateDialplanXml writes out
EmittedExtension(e, rawBody) ==
    IF InvalidExtension(e) THEN XmlFallbackExtension(rawBody) ELSE e

generateDialplanXml(contextName, extensionObject, rawBody) ==
    LET e == EmittedExtension(extensionObject, rawBody)
    IN  XmlProlog
        \o <<"<", "context", " name=", "\"">> \o _escapeAttribute(contextName) \o <<"\"", ">">>
        \o <<"<", "extension", " name=", "\"">> \o _escapeAttribute(e.name) \o <<"\"", ">">>
        \o <<"<", "condition", " field=", "\"">> \o _escapeAttribute(e.condition_field)
        \o <<"\"", " expression=", "\"">> \o e.expression \o <<"\"", ">">>
        \o ActionsXml(e.actions)
        \o <<"</", "condition", ">", "</", "extension", ">">>
        \o XmlEpilog

generateErrorXml(destination) ==
    LET safeDestination == _escapeAttribute(OrElse(destination, <<"unknown">>))
    IN  XmlProlog
        \o <<"<", "context", " name=", "\"", "default", "\"", ">", "\n  ">>
        \o <<"<", "extension", " name=", "\"", "application_error", "\"", ">", "\n    ">>
        \o <<"<", "condition", " field=", "\"", "destination_number", "\"",
             " expression=", "\"", "^">> \o safeDestination \o <<"$", "\"", ">", "\n      ">>
        \o <<"<", "action", " application=", "\"", "answer", "\"", "/>", "\n      ">>
        \o <<"<", "action", " application=", "\"", "playback", "\"", " data=", "\"",
             "ivr/ivr-call_cannot_be_completed_as_dialed.wav", "\"", "/>", "\n      ">>
        \o <<"<", "action", " application=", "\"", "hangup", "\"", "/>", "\n    ">>
        \o <<"</", "condition", ">", "\n  ", "</", "extension", ">", "\n">>
        \o XmlEpilog

\* ------------------------------------------------------------------------
\* Regular expressions of tenant dialplan entries.  The stored expressions
\* are: an optional "^", items (a character, an escaped character, or \d),
\* an optional "$"; or text with an unbalanced "(", which `new RegExp` rejects.
\* ------------------------------------------------------------------------

RECURSIVE ParenDepth(_, _, _)
\* -1 once a ")" closes nothing, else the number of "(" left open
ParenDepth(e, i, depth) ==
    IF i > Len(e) THEN depth
    ELSE IF e[i] = "\\" THEN ParenDepth(e, i + 2, depth)
    ELSE IF e[i] = "(" THEN ParenDepth(e, i + 1, depth + 1)
    ELSE IF e[i] = ")" THEN (IF depth = 0 THEN 0 - 1 ELSE ParenDepth(e, i + 1, depth - 1))
    ELSE ParenDepth(e, i + 1, depth)

\* new RegExp(e) throws a SyntaxError
RegExpThrows(e) == ParenDepth(e, 1, 0) # 0

RECURSIVE RegExpItems(_)
\* the sets of characters the items of e stand for, anchors removed
RegExpItems(e) ==
    IF e = <<>> THEN <<>>
    ELSE IF Head(e) = "\\" /\ Len(e) >= 2
         THEN <<IF e[2] = "d" THEN Digit ELSE {e[2]}>> \o RegExpItems(SubSeq(e, 3, Len(e)))
         ELSE <<{Head(e)}>> \o RegExpItems(Tail(e))

\* new RegExp(e).test(s), for e that does not throw
RegExpTest(e, s) ==
    LET atStart == e # <<>> /\ Head(e) = "^"
        e1 == IF atStart THEN Tail(e) ELSE e
        atEnd == e1 # <<>> /\ e1[Len(e1)] = "$"
                 /\ ~(Len(e1) >= 2 /\ e1[Len(e1) - 1] = "\\")
        items == RegExpItems(IF atEnd THEN SubSeq(e1, 1, Len(e1) - 1) ELSE e1)
        n == Len(items)
        MatchAt(k) == k + n - 1 <= Len(s) /\ \A j \in 1..n : s[k + j - 1] \in items[j]
    IN  \E k \in 1..(Len(s) + 1) :
            /\ MatchAt(k)
            /\ atStart => k = 1
            /\ atEnd => k + n - 1 = Len(s)

AllDigits(s) == \A i \in 1..Len(s) : s[i] \in Digit

\* /^\d{10}$/
IsTenDigits(s) == Len(s) = 10 /\ AllDigits(s)

\* /^(\+?1?)?(\d{10})$/
MatchesPstn(s) ==
    \E p \in {<<>>, <<"+">>, <<"1">>, <<"+", "1">>} :
        /\ StartsWith(s, p)
        /\ IsTenDigits(SubSeq(s, Len(p) + 1, Len(s)))

\* match[2] of the PSTN pattern: the last ten digits
PstnTenDigits(s) == SubSeq(s, Len(s) - 9, Len(s))

\* /^\+?\d{10,15}$/
MatchesExternal(s) ==
    LET d == IF s # <<>> /\ Head(s) = "+" THEN Tail(s) ELSE s
    IN  Len(d) >= 10 /\ Len(d) <= 15 /\ AllDigits(d)

RECURSIVE ReplaceNonAlnum(_)
\* s.replace(/[^a-zA-Z0-9]/g, "_")
ReplaceNonAlnum(s) ==
    IF s = <<>> THEN <<>>
    ELSE <<IF IsAlnum(Head(s)) THEN Head(s) ELSE "_">> \o ReplaceNonAlnum(Tail(s))

RECURSIVE ReplaceNonDigit(_)
\* s.replace(/\D/g, "_")
ReplaceNonDigit(s) ==
    IF s = <<>> THEN <<>>
    ELSE <<IF Head(s) \in Digit THEN Head(s) ELSE "_">> \o ReplaceNonDigit(Tail(s))

RECURSIVE KeepAlnumPlus(_)
\* s.replace(/[^a-zA-Z0-9\+]/g, "")
KeepAlnumPlus(s) ==
    IF s = <<>> THEN <<>>
    ELSE (IF IsAlnum(Head(s)) \/ Head(s) = "+" THEN <<Head(s)>> ELSE <<>>)
         \o KeepAlnumPlus(Tail(s))

\* arr.find(pred): the index of the first element satisfying P, 0 when none
FindIndex(arr, P(_)) ==
    IF \E i \in 1..Len(arr) : P(arr[i])
    THEN CHOOSE i \in 1..Len(arr) : P(arr[i]) /\ \A j \in 1..(i - 1) : ~P(arr[j])
    ELSE 0

\* arr.join(sep) of an array of strings
RECURSIVE Join(_, _)
Join(arr, sep) ==
    IF arr = <<>> THEN <<>>
    ELSE IF Len(arr) = 1 THEN arr[1]
    ELSE arr[1] \o sep \o Join(Tail(arr), sep)

\* ------------------------------------------------------------------------
\* services/tenantService.js, services/globalConfigService.js: the reads
\* ------------------------------------------------------------------------

\* the value null where a tenant is expected
NullTenant == [isNull |-> TRUE]
IsNullTenant(t) == "isNull" \in DOMAIN t

\* { tenant: null, matchedDid: null }
NoTenantAndDid == [tenant |-> NullTenant, matchedDid |-> NullTenant]

\* t is a tenant document (has domain_name, dids, ...)
IsTenantDoc(t) == "domain_name" \in DOMAIN t

\* Tenant.findOne(filter): the first document of the collection satisfying P
FindOne(tenants, P(_)) ==
    LET i == FindIndex(tenants, P) IN IF i = 0 THEN NullTenant ELSE tenants[i]

\* the value getTenantByDomain resolves to when the store read succeeds
getTenantByDomain(tenants, domainName) ==
    IF ~Truthy(domainName) THEN NullTenant
    ELSE FindOne(tenants, LAMBDA t : t.domain_name = domainName)

\* getTenantByDomain reads the store (it returns before reading when !domainName)
TenantReadTouchesStore(domainName) == Truthy(domainName)

\* the value getTenantAndDidByDidNumber resolves to when the store read succeeds
getTenantAndDidByDidNumber(tenants, didNumber) ==
    LET tenant == FindOne(tenants,
                          LAMBDA t : /\ \E i \in 1..Len(t.dids) : t.dids[i].did_number = didNumber
                                     /\ \E i \in 1..Len(t.dids) : t.dids[i].active)
    IN  IF IsNullTenant(tenant) THEN NoTenantAndDid
        ELSE IF FindIndex(tenant.dids, LAMBDA d : d.did_number = didNumber /\ d.active) = 0
             THEN NoTenantAndDid
             ELSE tenant

\* ------------------------------------------------------------------------
\* controllers/dialplanController.js: the handlers
\* ------------------------------------------------------------------------

\* what a handler hands back: a thrown exception, or an extension program or null
Threw == [threw |-> TRUE, ext |-> NullExt]
Returned(e) == [threw |-> FALSE, ext |-> e]

getNoMatchFallback(destination) ==
    Ext(<<"invalid_extension_fallback">>, <<"destination_number">>, Anchored(destination),
        <<Act(<<"answer">>, Undef),
          Act(<<"playback">>, IVR_SOUND_PATH_INVALID_ENTRY),
          Act(<<"hangup">>, Undef)>>)

SetExport(name, value) ==
    <<Act(<<"set">>, <<name>> \o value), Act(<<"export">>, <<name>> \o value)>>

AnnounceAndHangup ==
    <<Act(<<"answer">>, <<>>),
      Act(<<"playback">>, IVR_SOUND_PATH_CALL_CANNOT_BE_COMPLETED),
      Act(<<"hangup">>, <<>>)>>

\* answer, sleep, voicemail "default <domain> <box>", log, hangup
VoicemailBlock(domain_name, box, logText) ==
    <<Act(<<"answer">>, <<>>),
      Act(<<"sleep">>, <<"1", "0", "0", "0">>),
      Act(<<"voicemail">>, <<"default", " ">> \o String(domain_name) \o <<" ">> \o String(box)),
      Act(<<"log">>, logText),
      Act(<<"hangup">>, <<>>)>>

\* members.map(member => `user/${member.user_id}@${domain}`)
RECURSIVE MemberBridgeStrings(_, _)
MemberBridgeStrings(members, domain_name) ==
    IF members = <<>> THEN <<>>
    ELSE <<(<<"user/">> \o String(Head(members).user_id) \o <<"@">> \o String(domain_name))>>
         \o MemberBridgeStrings(Tail(members), domain_name)

\* `${national_number_formatted}, ${cnam.caller_id}, ${location}`
CnamDisplay(cnamData) ==
    String(cnamData.national_number_formatted) \o <<",", " ">>
    \o String(cnamData.caller_id) \o <<",", " ">> \o String(cnamData.location)

\* the value null where a CNAM record is expected
NullCnam == [isNull |-> TRUE]
IsNullCnam(c) == "isNull" \in DOMAIN c

\* handleInboundCall from line 90 on, given what lookupCnam and the DID read
\* resolved to (tenant is the variable assigned on line 105)
InboundProgram(body, cnamData, tenant, effectiveDestination) ==
    LET name0 == IF ~IsNullCnam(cnamData) THEN CnamDisplay(cnamData)
                 ELSE body["Caller-Caller-ID-Name"]
        effectiveCallerIdNumber == normalizePhoneNumber(body["Caller-Caller-ID-Number"])
        effectiveCallerIdName == normalizePhoneNumber(name0)
        hasDomain == IsTenantDoc(tenant) /\ Truthy(tenant.domain_name)
        preamble ==
            SetExport("caller_id_name=", effectiveCallerIdName)
            \o SetExport("caller_id_number=", effectiveCallerIdNumber)
            \o SetExport("effective_caller_id_name=", effectiveCallerIdName)
            \o SetExport("effective_caller_id_number=", effectiveCallerIdNumber)
            \o (IF hasDomain
                THEN SetExport("sip_invite_domain=", tenant.domain_name)
                     \o SetExport("sip_from_host=", tenant.domain_name)
                     \o SetExport("sip_from_user=", effectiveCallerIdNumber)
                     \o SetExport("sip_from_display=", effectiveCallerIdName)
                     \o SetExport("sip_from_uri=",
                                  effectiveCallerIdNumber \o <<"@">> \o tenant.domain_name)
                ELSE <<>>)
        normalizedEffectiveDestination ==
            IF IsTenDigits(String(effectiveDestination))
            THEN <<"+", "1">> \o String(effectiveDestination)
            ELSE String(effectiveDestination)
        dids == IF IsTenantDoc(tenant) THEN tenant.dids ELSE <<>>
        di == FindIndex(dids, LAMBDA did : did.did_number = normalizedEffectiveDestination)
    IN  IF di = 0 THEN NullExt
        ELSE
        LET matchedDid == dids[di]
            ci == FindIndex(tenant.sip_clients,
                            LAMBDA client : client.user_id = matchedDid.routing_target)
            gi == FindIndex(tenant.groups,
                            LAMBDA group : group.name = matchedDid.routing_target)
            targetFound ==
                CASE matchedDid.routing_type = <<"extension">> -> ci # 0
                  [] matchedDid.routing_type = <<"group">> -> gi # 0
                  [] OTHER -> TRUE
            routingApplication ==
                IF matchedDid.routing_type \in {<<"extension">>, <<"group">>}
                THEN <<"bridge">> ELSE <<"transfer">>
            routingData ==
                CASE matchedDid.routing_type = <<"extension">> ->
                        <<"user/">> \o tenant.sip_clients[ci].user_id \o <<"@">> \o tenant.domain_name
                  [] matchedDid.routing_type = <<"group">> ->
                        Join(MemberBridgeStrings(tenant.groups[gi].members, tenant.domain_name),
                             IF tenant.groups[gi].type = <<"hunt">> THEN <<"|">> ELSE <<",">>)
                  [] matchedDid.routing_type = <<"ivr">> ->
                        matchedDid.routing_target \o <<" XML ">> \o tenant.domain_name
                        \o <<"_ivr_context">>
                  [] OTHER -> matchedDid.routing_target
            failover ==
                IF matchedDid.failover_routing_type = <<"dialplan_extension">>
                   /\ Truthy(matchedDid.failover_routing_target)
                THEN <<Act(<<"log">>, <<"INFO Primary DID route for ">> \o matchedDid.did_number
                                      \o <<" failed. Attempting failover.">>)>>
                     \o (IF StartsWith(matchedDid.failover_routing_target, <<"voicemail_">>)
                         THEN LET vmBoxId == Tail(matchedDid.failover_routing_target)
                              IN  VoicemailBlock(tenant.domain_name, vmBoxId,
                                      <<"INFO Sent DID call to voicemail for ">> \o vmBoxId
                                      \o <<". Originate Disposition: ${originate_disposition}">>)
                         ELSE <<>>)
                ELSE AnnounceAndHangup
        IN  IF ~targetFound THEN NullExt
            ELSE Ext(<<"did_inbound_">> \o KeepAlnumPlus(matchedDid.did_number),
                     <<"destination_number">>,
                     Anchored(effectiveDestination),
                     preamble
                     \o <<Act(<<"set">>, <<"continue_on_fail=true">>),
                          Act(<<"set">>, <<"hangup_after_bridge=true">>),
                          Act(routingApplication, routingData)>>
                     \o failover)

\* handleOutboundCall, lines 259-263: effectiveDestination.match(pstnRegex)
\* throws a TypeError when effectiveDestination is undefined
OutboundMatchThrows(effectiveDestination) == effectiveDestination = Undef

\* an outbound handler that never takes a call, so local dispatch sees every
\* destination first: what C22 rules out
OutboundNeverMatches(effectiveDestination) == FALSE

\* handleOutboundCall reaches the gateway read
OutboundReadsGateways(effectiveDestination) ==
    ~OutboundMatchThrows(effectiveDestination) /\ MatchesPstn(effectiveDestination)

\* handleOutboundCall sending the trunk "+1" and the destination as dialled,
\* whatever prefix it carries: what C11 rules out
OutboundProgramKeepsPrefix(globalGateways, effectiveDestination) ==
    IF Len(globalGateways) > 0
    THEN Ext(<<"outbound_pstn_">> \o PstnTenDigits(effectiveDestination),
             <<"destination_number">>, Anchored(effectiveDestination),
             <<Act(<<"bridge">>, <<"sofia/gateway/">> \o SIGNALWIRE_TRUNK_PROFILE_NAME
                                 \o <<"/", "+", "1">>
                                 \o SelectSeq(effectiveDestination, LAMBDA c : c # "+")),
               Act(<<"playback">>, IVR_SOUND_PATH_CALL_CANNOT_BE_COMPLETED),
               Act(<<"hangup">>, <<>>)>>)
    ELSE NullExt

\* handleOutboundCall from line 268 on, given the gateway pool read
OutboundProgram(globalGateways, effectiveDestination) ==
    IF Len(globalGateways) > 0
    THEN LET raw10DigitNumber == PstnTenDigits(effectiveDestination)
             formattedNumberForTrunk == <<"+", "1">> \o raw10DigitNumber
         IN  Ext(<<"outbound_pstn_">> \o raw10DigitNumber, <<"destination_number">>,
                 Anchored(effectiveDestination),
                 <<Act(<<"bridge">>, <<"sofia/gateway/">> \o SIGNALWIRE_TRUNK_PROFILE_NAME
                                     \o <<"/">> \o formattedNumberForTrunk),
                   Act(<<"playback">>, IVR_SOUND_PATH_CALL_CANNOT_BE_COMPLETED),
                   Act(<<"hangup">>, <<>>)>>)
    ELSE NullExt

\* number-or-absent values are <<>> (absent) or <<n>>
NumTruthy(x) == x # <<>> /\ x[1] # 0

\* s.includes("@") ? s.split("@")[0] : s
BeforeAt(s) ==
    LET i == FindIndex(s, LAMBDA c : c = "@") IN IF i = 0 THEN s ELSE SubSeq(s, 1, i - 1)

\* lines 310-368 of handleLocalCall: the caller-id actions
LocalCallerIdActions(body, tenant) ==
    LET defaultName == OrElse(tenant.profile.defaultCallerID.name, <<"Anonymous">>)
        defaultNumber == OrElse(tenant.profile.defaultCallerID.number,
                                <<"0", "0", "0", "0", "0", "0", "0", "0", "0", "0">>)
        originatingCallerIdNumberFromFS == body["Caller-Caller-ID-Number"]
        oi == FindIndex(tenant.sip_clients,
                  LAMBDA client : normalizeStringForComparison(client.user_id)
                                  = normalizeStringForComparison(originatingCallerIdNumberFromFS))
        callerIdName ==
            IF oi = 0 THEN defaultName
            ELSE IF Truthy(tenant.sip_clients[oi].local_caller_id_name)
                 THEN tenant.sip_clients[oi].local_caller_id_name
            ELSE IF Truthy(tenant.sip_clients[oi].display_name)
                 THEN tenant.sip_clients[oi].display_name
            ELSE tenant.sip_clients[oi].user_id
        callerIdNumber == IF oi = 0 THEN defaultNumber ELSE tenant.sip_clients[oi].user_id
    IN  <<Act(<<"set">>, <<"caller_id_name=">> \o callerIdName),
          Act(<<"set">>, <<"caller_id_number=">> \o callerIdNumber),
          Act(<<"set">>, <<"effective_caller_id_name=">> \o callerIdName),
          Act(<<"set">>, <<"effective_caller_id_number=">> \o callerIdNumber)>>

\* Rule 1 with its hangup ahead of the voicemail action: the order C5 rules out
LocalRule1HangupFirst(actions, tenant, effectiveDestination) ==
    Ext(<<"check_voicemail">>, <<"destination_number">>, Anchored(effectiveDestination),
        actions
        \o <<Act(<<"answer">>, Undef),
             Act(<<"sleep">>, <<"1", "0", "0", "0">>),
             Act(<<"hangup">>, <<>>),
             Act(<<"voicemail">>, <<"check", " ", "default", " ">> \o tenant.domain_name)>>)

\* Rule 1: the voicemail check code
LocalRule1(actions, tenant, effectiveDestination) ==
    Ext(<<"check_voicemail">>, <<"destination_number">>, Anchored(effectiveDestination),
        actions
        \o <<Act(<<"answer">>, Undef),
             Act(<<"sleep">>, <<"1", "0", "0", "0">>),
             Act(<<"voicemail">>, <<"check", " ", "default", " ">> \o tenant.domain_name),
             Act(<<"hangup">>, <<>>)>>)

\* Rule 2 joining the members of every group with ",": what C13 rules out
LocalRule2AlwaysRing(actions, tenant, matchedGroup, effectiveDestination) ==
    LET membersBridgeStrings == MemberBridgeStrings(matchedGroup.members, tenant.domain_name)
        bridgeTimeout == IF NumTruthy(matchedGroup.timeout)
                         THEN <<"timeout=">> \o NumToStr(matchedGroup.timeout[1]) \o <<",">>
                         ELSE <<>>
    IN  Ext(<<"group_">> \o ReplaceNonAlnum(matchedGroup.name), <<"destination_number">>,
            Anchored(effectiveDestination),
            actions
            \o <<Act(<<"set">>, <<"continue_on_fail=true">>),
                 Act(<<"set">>, <<"hangup_after_bridge=true">>),
                 Act(<<"bridge">>, bridgeTimeout \o Join(membersBridgeStrings, <<",">>))>>
            \o AnnounceAndHangup)

\* Rule 2 sending the caller to the group's voicemail box whether or not the
\* group has voicemail enabled: what C25 rules out
LocalRule2BoxOnly(actions, tenant, matchedGroup, effectiveDestination) ==
    LET membersBridgeStrings == MemberBridgeStrings(matchedGroup.members, tenant.domain_name)
        bridgeTarget == Join(membersBridgeStrings,
                             IF matchedGroup.type = <<"hunt">> THEN <<"|">> ELSE <<",">>)
        bridgeTimeout == IF NumTruthy(matchedGroup.timeout)
                         THEN <<"timeout=">> \o NumToStr(matchedGroup.timeout[1]) \o <<",">>
                         ELSE <<>>
        failure ==
            IF Truthy(matchedGroup.voicemail_box_id)
            THEN VoicemailBlock(tenant.domain_name, matchedGroup.voicemail_box_id,
                     <<"INFO Sent call to group voicemail for ">> \o matchedGroup.name
                     \o <<". Originate Disposition: ${originate_disposition}">>)
            ELSE IF Truthy(matchedGroup.no_answer_action.application)
                 THEN <<matchedGroup.no_answer_action>>
            ELSE AnnounceAndHangup
    IN  Ext(<<"group_">> \o ReplaceNonAlnum(matchedGroup.name), <<"destination_number">>,
            Anchored(effectiveDestination),
            actions
            \o <<Act(<<"set">>, <<"continue_on_fail=true">>),
                 Act(<<"set">>, <<"hangup_after_bridge=true">>),
                 Act(<<"bridge">>, bridgeTimeout \o bridgeTarget)>>
            \o failure)

\* Rule 2: hunt and ring groups
LocalRule2(actions, tenant, matchedGroup, effectiveDestination) ==
    LET membersBridgeStrings == MemberBridgeStrings(matchedGroup.members, tenant.domain_name)
        bridgeTarget == Join(membersBridgeStrings,
                             IF matchedGroup.type = <<"hunt">> THEN <<"|">> ELSE <<",">>)
        bridgeTimeout == IF NumTruthy(matchedGroup.timeout)
                         THEN <<"timeout=">> \o NumToStr(matchedGroup.timeout[1]) \o <<",">>
                         ELSE <<>>
        failure ==
            IF matchedGroup.enable_voicemail /\ Truthy(matchedGroup.voicemail_box_id)
            THEN VoicemailBlock(tenant.domain_name, matchedGroup.voicemail_box_id,
                     <<"INFO Sent call to group voicemail for ">> \o matchedGroup.name
                     \o <<". Originate Disposition: ${originate_disposition}">>)
            ELSE IF Truthy(matchedGroup.no_answer_action.application)
                 THEN <<matchedGroup.no_answer_action>>
            ELSE AnnounceAndHangup
    IN  Ext(<<"group_">> \o ReplaceNonAlnum(matchedGroup.name), <<"destination_number">>,
            Anchored(effectiveDestination),
            actions
            \o <<Act(<<"set">>, <<"continue_on_fail=true">>),
                 Act(<<"set">>, <<"hangup_after_bridge=true">>),
                 Act(<<"bridge">>, bridgeTimeout \o bridgeTarget)>>
            \o failure)

\* Rule 3: a tenant dialplan entry
LocalRule3(actions, matchedExplicitExtension) ==
    Ext(matchedExplicitExtension.name, matchedExplicitExtension.condition_field,
        matchedExplicitExtension.condition_expression,
        actions \o matchedExplicitExtension.actions)

\* Rule 4: a SIP client
LocalRule4(actions, tenant, sipClient, effectiveDestination) ==
    LET callTimeout == IF NumTruthy(sipClient.no_answer_timeout)
                       THEN sipClient.no_answer_timeout[1] ELSE 30
        u == sipClient.user_id
        d == tenant.domain_name
    IN  Ext(<<"sip_client_">> \o ReplaceNonAlnum(u), <<"destination_number">>,
            Anchored(effectiveDestination),
            actions
            \o <<Act(<<"export">>, <<"dialed_extension=">> \o u),
                 Act(<<"log">>, <<"INFO Dialing extension ">> \o u \o <<" in domain ">> \o d),
                 Act(<<"set">>, <<"user_exists=${user_exists(">> \o u \o <<"@">> \o d \o <<")}">>),
                 Act(<<"log">>, <<"INFO user_exists for ">> \o u \o <<"@">> \o d
                                \o <<": ${user_exists}">>),
                 Act(<<"export">>, <<"sip_invite_domain=">> \o d),
                 Act(<<"export">>, <<"sip_invite_user=">> \o u),
                 Act(<<"bind_meta_app">>, <<"1 b s execute_extension::dx XML features">>),
                 Act(<<"bind_meta_app">>,
                     <<"2 b s record_session::${recordings_dir}/${caller_id_number}.${strftime(%Y-%m-%d-%H-%M-%S)}.wav">>),
                 Act(<<"bind_meta_app">>, <<"3 b s execute_extension::cf XML features">>),
                 Act(<<"bind_meta_app">>, <<"4 b s execute_extension::att_xfer XML features">>),
                 Act(<<"set">>, <<"ringback=${us-ring}">>),
                 Act(<<"set">>, <<"transfer_ringback=${hold_music}">>),
                 Act(<<"set">>, <<"call_timeout=">> \o NumToStr(callTimeout)),
                 Act(<<"set">>, <<"hangup_after_bridge=true">>),
                 Act(<<"set">>, <<"continue_on_fail=true">>),
                 Act(<<"hash">>, <<"insert/${domain_name}-call_return/">> \o u
                                 \o <<"/${caller_id_number}">>),
                 Act(<<"hash">>, <<"insert/${domain_name}-last_dial_ext/">> \o u \o <<"/${uuid}">>),
                 Act(<<"set">>, <<"called_party_callgroup=${user_data(">> \o u
                                \o <<"@${domain_name} var callgroup)}">>),
                 Act(<<"hash">>,
                     <<"insert/${domain_name}-last_dial_ext/${called_party_callgroup}/${uuid}">>),
                 Act(<<"hash">>, <<"insert/${domain_name}-last_dial_ext/global/${uuid}">>),
                 Act(<<"hash">>,
                     <<"insert/${domain_name}-last_dial/${called_party_callgroup}/${uuid}">>),
                 Act(<<"bridge">>, <<"user/">> \o u \o <<"@">> \o d)>>
            \o (IF sipClient.enable_voicemail
                THEN VoicemailBlock(d, u, <<"INFO Sent call to voicemail for ">> \o u
                         \o <<". Originate Disposition: ${originate_disposition}">>)
                ELSE AnnounceAndHangup))

\* Rule 5: external dial-out
LocalRule5(actions, effectiveDestination) ==
    Ext(<<"outbound_">> \o ReplaceNonDigit(effectiveDestination), <<"destination_number">>,
        Anchored(effectiveDestination),
        actions
        \o <<Act(<<"bridge">>, <<"sofia/gateway/signalwire/">> \o effectiveDestination),
             Act(<<"hangup">>, <<>>)>>)

\* the fallback of handleLocalCall
LocalFallback(actions, effectiveDestination) ==
    Ext(<<"fallback_local_call">>, <<"destination_number">>, Anchored(effectiveDestination),
        actions \o AnnounceAndHangup)

\* the entry Rule 3's find stops at: the first entry on destination_number whose
\* expression throws or matches; 0 when there is none
Rule3Index(entries, effectiveDestination) ==
    FindIndex(entries,
              LAMBDA ext : /\ ext.condition_field = <<"destination_number">>
                           /\ \/ RegExpThrows(ext.condition_expression)
                              \/ RegExpTest(ext.condition_expression, effectiveDestination))

\* the rules with SIP clients tried ahead of groups and dialplan entries: an
\* order C12 rules out
LocalRuleClientsFirst(tenant, effectiveDestination) ==
    IF BeforeAt(effectiveDestination) = VOICEMAIL_CHECK_EXTENSION THEN 1
    ELSE IF FindIndex(tenant.sip_clients,
                LAMBDA client : normalizeStringForComparison(client.user_id)
                                = normalizeStringForComparison(effectiveDestination)) # 0 THEN 4
    ELSE IF FindIndex(tenant.groups, LAMBDA group : group.name = effectiveDestination) # 0 THEN 2
    ELSE IF Rule3Index(tenant.dialplan.default, effectiveDestination) # 0 THEN 3
    ELSE IF MatchesExternal(effectiveDestination) THEN 5
    ELSE 6

\* which rule of handleLocalCall decides: 1..5, 6 for the fallback
LocalRule(tenant, effectiveDestination) ==
    IF BeforeAt(effectiveDestination) = VOICEMAIL_CHECK_EXTENSION THEN 1
    ELSE IF FindIndex(tenant.groups, LAMBDA group : group.name = effectiveDestination) # 0 THEN 2
    ELSE IF Rule3Index(tenant.dialplan.default, effectiveDestination) # 0 THEN 3
    ELSE IF FindIndex(tenant.sip_clients,
                LAMBDA client : normalizeStringForComparison(client.user_id)
                                = normalizeStringForComparison(effectiveDestination)) # 0 THEN 4
    ELSE IF MatchesExternal(effectiveDestination) THEN 5
    ELSE 6

handleLocalCall(body, tenant, domain, effectiveDestination) ==
    LET actions == LocalCallerIdActions(body, tenant)
        rule == LocalRule(tenant, effectiveDestination)
        gi == FindIndex(tenant.groups, LAMBDA group : group.name = effectiveDestination)
        ei == Rule3Index(tenant.dialplan.default, effectiveDestination)
        si == FindIndex(tenant.sip_clients,
                  LAMBDA client : normalizeStringForComparison(client.user_id)
                                  = normalizeStringForComparison(effectiveDestination))
    IN  CASE rule = 1 -> Returned(LocalRule1(actions, tenant, effectiveDestination))
          [] rule = 2 -> Returned(LocalRule2(actions, tenant, tenant.groups[gi],
                                             effectiveDestination))
          [] rule = 3 ->
                IF RegExpThrows(tenant.dialplan.default[ei].condition_expression)
                THEN Threw
                ELSE Returned(LocalRule3(actions, tenant.dialplan.default[ei]))
          [] rule = 4 -> Returned(LocalRule4(actions, tenant, tenant.sip_clients[si],
                                             effectiveDestination))
          [] rule = 5 -> Returned(LocalRule5(actions, effectiveDestination))
          [] OTHER -> Returned(LocalFallback(actions, effectiveDestination))

\* ------------------------------------------------------------------------
\* The request body and what dialplanController.lookup reads from it
\* ------------------------------------------------------------------------

BodyKeys ==
    {"domain", "variable_domain_name", "variable_sip_to_host", "Caller-Context",
     "variable_dialplan_context", "Caller-Destination-Number", "destination_number",
     "Caller-Channel-Name", "variable_signalwire_actual_did", "variable_sip_to_user",
     "variable_sip_dest_user", "Caller-Caller-ID-Number", "Caller-Caller-ID-Name",
     "section", "action", "key_value", "user", "sip_auth_username"}

NoBody == [k \in BodyKeys |-> Undef]

LookupDomain(body) ==
    OrElse(body["domain"], OrElse(body["variable_domain_name"], body["variable_sip_to_host"]))

RequestedContext(body) ==
    OrElse(body["Caller-Context"], OrElse(body["variable_dialplan_context"], <<"default">>))

Destination(body) == OrElse(body["Caller-Destination-Number"], body["destination_number"])

FromDomain(body) == extractDomain(body["Caller-Channel-Name"])

EffectiveDestination(body) == OrElse(body["variable_signalwire_actual_did"], Destination(body))

ActualDidFromTrunk(body) == OrElse(body["variable_sip_to_user"], body["variable_sip_dest_user"])

\* the context name lookup hands to the emitter (finalContext)
FinalContext(body) == RequestedContext(body)

NoTenantFound(body) ==
    Ext(<<"no_tenant_found">>, <<"destination_number">>, Anchored(EffectiveDestination(body)),
        <<Act(<<"answer">>, <<>>),
          Act(<<"playback">>, IVR_SOUND_PATH_INVALID_DOMAIN),
          Act(<<"hangup">>, <<>>)>>)

PublicNoDidFound(body) ==
    Ext(<<"public_no_did_found">>, <<"destination_number">>, Anchored(Destination(body)),
        <<Act(<<"answer">>, <<>>),
          Act(<<"playback">>, IVR_SOUND_PATH_CALL_CANNOT_BE_COMPLETED),
          Act(<<"hangup">>, <<"NORMAL_CLEARING">>)>>)

\* the condition of the inter-domain guard, line 572
InterDomain(body) ==
    /\ Truthy(FromDomain(body))
    /\ Truthy(LookupDomain(body))
    /\ normalizeStringForComparison(LookupDomain(body))
       # normalizeStringForComparison(FromDomain(body))

\* the guard's program with a local bridge ahead of its hangup: what C4 rules out
BlockInterdomainCallBridges(body) ==
    Ext(<<"block-interdomain-call">>, <<"destination_number">>,
        Anchored(EffectiveDestination(body)),
        <<Act(<<"bridge">>, <<"user/">> \o String(EffectiveDestination(body)) \o <<"@">>
                            \o String(LookupDomain(body))),
          Act(<<"hangup">>, <<"CALL_REJECTED">>)>>)

BlockInterdomainCall(body) ==
    Ext(<<"block-interdomain-call">>, <<"destination_number">>,
        Anchored(EffectiveDestination(body)),
        <<Act(<<"hangup">>, <<"CALL_REJECTED">>)>>)

\* lines 586-592: local dispatch, then the no-match fallback when it returns null
LocalThenFallback(body, tenant) ==
    LET r == handleLocalCall(body, tenant, LookupDomain(body), EffectiveDestination(body))
    IN  IF r.threw THEN Threw
        ELSE IF IsNullExt(r.ext) THEN Returned(getNoMatchFallback(EffectiveDestination(body)))
        ELSE r

\* what lookup has to answer: no exception left it, and a document
Answer(doc) == [raised |-> FALSE, doc |-> doc]

\* an exception leaving lookup: its caller gets no document
Escapes == [raised |-> TRUE, doc |-> <<>>]

\* lines 598-600: the extension program (or null) goes to the emitter
LookupEmit(body, matchedExtension) ==
    Answer(generateDialplanXml(FinalContext(body), matchedExtension, body))

\* a catch block that hands the exception on to the caller: what C1 rules out
LookupCatchRethrows(body) == Escapes

\* lines 601-604: the catch block of lookup
LookupCatch(body) == Answer(generateErrorXml(body["Caller-Destination-Number"]))

\* ------------------------------------------------------------------------
\* services/signalwireService.js: lookupCnam
\* ------------------------------------------------------------------------

\* lookupCnam throws before it calls the service: lines 26-32
CnamRejectsBeforeFetch(phoneNumber, credentials) == ~Truthy(phoneNumber) \/ ~credentials

\* what the service call makes of the reply: lines 56-99.  A reply is the
\* network failing, a non-2xx status, or a 2xx status with a JSON body
\* (a record, a record without its cnam object, or null).
CnamFetchThrows(reply) == reply.kind \in {"network", "non2xx"}

CnamFetchValue(reply) == IF reply.kind = "null" THEN NullCnam ELSE reply.data

\* line 93 of handleInboundCall reads cnamData.cnam.caller_id
CnamDisplayThrows(cnamData) == ~IsNullCnam(cnamData) /\ ~cnamData.has_cnam

\* ------------------------------------------------------------------------
\* controllers/directoryController.js: the directory resolver
\* ------------------------------------------------------------------------

\* <param name="name" value="value"/>
ParamXml(name, value) ==
    <<"<", "param", " name=", "\"">> \o name \o <<"\"", " value=", "\"">> \o value
    \o <<"\"", "/>">>

\* <variable name="name" value="value"/>
VariableXml(name, value) ==
    <<"<", "variable", " name=", "\"">> \o name \o <<"\"", " value=", "\"">> \o value
    \o <<"\"", "/>">>

\* <document type="freeswitch/xml"/>
EmptyDirectoryDocument == <<"<", "document", " type=", "\"", "freeswitch/xml", "\"", "/>">>

\* const userNumber = body.sip_auth_username || body.user
DirectoryUserNumber(body) == OrElse(body["sip_auth_username"], body["user"])

\* lookup returns before reading the store
DirectoryReturnsEarly(body) ==
    ~Truthy(body["domain"]) \/ ~Truthy(DirectoryUserNumber(body))

defaultVoicemailPin == <<"0000">>
defaultVoicemailEmail(domain) == <<"voicemail@">> \o domain

\* the variables every user element starts with
DirectoryCommonVariables(tenant) ==
    VariableXml(<<"user_context">>, <<"default">>)
    \o VariableXml(<<"domain_name">>, tenant.domain_name)
    \o VariableXml(<<"domain">>, tenant.domain_name)

\* step 1: the user element of a SIP client
SipClientUserXml(tenant, domain, sipClient) ==
    LET voicemailPin == OrElse(sipClient.voicemail_pin, defaultVoicemailPin)
        voicemailEmail == OrElse(sipClient.voicemail_email, defaultVoicemailEmail(domain))
    IN  <<"<", "user", " id=", "\"">> \o sipClient.user_id \o <<"\"", ">">>
        \o <<"<", "params", ">">>
        \o ParamXml(<<"password">>, OrElse(sipClient.password, <<>>))
        \o (IF sipClient.enable_voicemail
            THEN ParamXml(<<"vm-password">>, voicemailPin) ELSE <<>>)
        \o <<"</", "params", ">", "<", "variables", ">">>
        \o DirectoryCommonVariables(tenant)
        \o VariableXml(<<"dial_string">>,
                       <<"{presence_id=">> \o sipClient.user_id \o <<"@">>
                       \o tenant.domain_name \o <<"}">>)
        \o (IF sipClient.enable_voicemail /\ Truthy(voicemailEmail)
            THEN VariableXml(<<"email_address">>, voicemailEmail) ELSE <<>>)
        \o VariableXml(<<"effective_caller_id_name">>,
                       OrElse(sipClient.display_name, sipClient.user_id))
        \o VariableXml(<<"effective_caller_id_number">>, sipClient.user_id)
        \o <<"</", "variables", ">", "</", "user", ">">>

\* steps 2 and 3: a voicemail-only user element, id userNumber, mailbox mailbox
VoicemailOnlyUserXml(tenant, userNumber, mailbox, voicemailPin, voicemailEmail, name, number) ==
    <<"<", "user", " id=", "\"">> \o userNumber \o <<"\"", " mailbox=", "\"">> \o mailbox
    \o <<"\"", ">", "<", "params", ">">>
    \o ParamXml(<<"password">>, <<"NO_SIP_AUTH">>)
    \o ParamXml(<<"vm-password">>, voicemailPin)
    \o <<"</", "params", ">", "<", "variables", ">">>
    \o DirectoryCommonVariables(tenant)
    \o (IF Truthy(voicemailEmail)
        THEN VariableXml(<<"email_address">>, voicemailEmail) ELSE <<>>)
    \o VariableXml(<<"effective_caller_id_name">>, name \o <<" Voicemail">>)
    \o VariableXml(<<"effective_caller_id_number">>, number)
    \o <<"</", "variables", ">", "</", "user", ">">>

\* step 2: the user element of a group voicemail box
GroupVmUserXml(tenant, domain, userNumber, groupVm) ==
    VoicemailOnlyUserXml(tenant, userNumber, groupVm.voicemail_box_id,
                         OrElse(groupVm.voicemail_pin, defaultVoicemailPin),
                         OrElse(groupVm.group_email, defaultVoicemailEmail(domain)),
                         groupVm.name, groupVm.voicemail_box_id)

\* did.failover_routing_target.substring("voicemail_".length)
vmBoxIdFromDid(did) == Tail(did.failover_routing_target)

\* step 3: the user element of a DID voicemail box
DidVmUserXml(tenant, domain, userNumber, didVm) ==
    VoicemailOnlyUserXml(tenant, userNumber, vmBoxIdFromDid(didVm),
                         OrElse(didVm.voicemail_pin, defaultVoicemailPin),
                         OrElse(didVm.voicemail_email, defaultVoicemailEmail(domain)),
                         didVm.did_number, didVm.did_number)

\* the predicate of tenant.dids?.find in step 3
DidVmMatches(did, userNumber) ==
    /\ did.did_number = userNumber
    /\ did.failover_routing_type = <<"dialplan_extension">>
    /\ Truthy(did.failover_routing_target)
    /\ StartsWith(did.failover_routing_target, <<"voicemail_">>)

\* the predicate of tenant.groups?.find in step 2
GroupVmMatches(group, userNumber) ==
    group.enable_voicemail /\ group.voicemail_box_id = userNumber

\* let userXml after the three steps, "" when nothing matched
DirectoryUserXml(tenant, domain, userNumber) ==
    LET c == FindIndex(tenant.sip_clients, LAMBDA client : client.user_id = userNumber)
        g == FindIndex(tenant.groups, LAMBDA group : GroupVmMatches(group, userNumber))
        d == FindIndex(tenant.dids, LAMBDA did : DidVmMatches(did, userNumber))
    IN  IF c # 0 THEN SipClientUserXml(tenant, domain, tenant.sip_clients[c])
        ELSE IF g # 0 THEN GroupVmUserXml(tenant, domain, userNumber, tenant.groups[g])
        ELSE IF d # 0 THEN DidVmUserXml(tenant, domain, userNumber, tenant.dids[d])
        ELSE <<>>

\* const response: the directory document around userXml
DirectoryDocument(domain, userXml) ==
    <<"<", "document", " type=", "\"", "freeswitch/xml", "\"", ">",
      "<", "section", " name=", "\"", "directory", "\"", ">",
      "<", "domain", " name=", "\"">> \o domain \o <<"\"", ">",
      "<", "params", ">">>
    \o ParamXml(<<"dial-string">>,
                <<"{presence_id=${dialed_user}@${dialed_domain}}${sofia_contact(${dialed_user}@${dialed_domain})}">>)
    \o <<"</", "params", ">">>
    \o userXml
    \o <<"</", "domain", ">", "</", "section", ">", "</", "document", ">">>

\* what lookup returns once getTenantByDomain resolved to tenant
DirectoryLookup(body, tenant) ==
    IF IsNullTenant(tenant) THEN EmptyDirectoryDocument
    ELSE LET userXml == DirectoryUserXml(tenant, body["domain"], DirectoryUserNumber(body))
         IN  IF userXml = <<>> THEN EmptyDirectoryDocument
             ELSE DirectoryDocument(body["domain"], userXml)

\* ------------------------------------------------------------------------
\* controllers/voicemailController.js, tenantService.findSipClient
\* ------------------------------------------------------------------------

\* <document type="freeswitch/xml"></document>
EmptyVoicemailDocument ==
    <<"<", "document", " type=", "\"", "freeswitch/xml", "\"", ">", "</", "document", ">">>

\* findSipClient throws 'Tenant not found' after its read
FindSipClientThrows(tenants, domainName) ==
    IsNullTenant(FindOne(tenants, LAMBDA t : t.domain_name = domainName))

\* the client findSipClient resolves to, NullTenant for null
findSipClient(tenants, domainName, userId) ==
    LET tenant == FindOne(tenants, LAMBDA t : t.domain_name = domainName)
        i == FindIndex(tenant.sip_clients, LAMBDA c : c.user_id = userId)
    IN  IF i = 0 THEN NullTenant ELSE tenant.sip_clients[i]

\* what the voicemail lookup returns once findSipClient resolved to sipClient
VoicemailLookup(body, sipClient) ==
    IF IsNullTenant(sipClient) THEN EmptyVoicemailDocument
    ELSE <<"<", "document", " type=", "\"", "freeswitch/xml", "\"", ">",
           "<", "section", " name=", "\"", "directory", "\"", ">",
           "<", "domain", " name=", "\"">> \o String(body["domain"]) \o <<"\"", ">",
           "<", "user", " id=", "\"">> \o String(body["user"]) \o <<"\"", ">",
           "<", "params", ">">>
         \o ParamXml(<<"vm-password">>, String(body["user"]))
         \o <<"</", "params", ">", "<", "variables", ">">>
         \o VariableXml(<<"user_context">>, <<"default">>)
         \o <<"</", "variables", ">", "</", "user", ">", "</", "domain", ">",
              "</", "section", ">", "</", "document", ">">>

\* ------------------------------------------------------------------------
\* controllers/configurationController.js: the configuration resolver
\* ------------------------------------------------------------------------

RECURSIVE ParamsXml(_)
\* one param element per (name, value) pair
ParamsXml(pairs) ==
    IF pairs = <<>> THEN <<>>
    ELSE ParamXml(<<Head(pairs)[1]>>, <<Head(pairs)[2]>>) \o ParamsXml(Tail(pairs))

\* the answer to a key other than sofia.conf
ConfigurationNotFound ==
    <<"<?", "xml", " version=", "\"", "1.0", "\"", " encoding=", "\"", "UTF-8", "\"",
      " standalone=", "\"", "no", "\"", "?>", "\n",
      "<", "document", " type=", "\"", "freeswitch/xml", "\"", ">",
      "<", "section", " name=", "\"", "result", "\"", ">",
      "<", "result", " status=", "\"", "not found", "\"", "/>",
      "</", "section", ">", "</", "document", ">">>

\* the answer of the catch block
ConfigurationError ==
    <<"<", "document", " type=", "\"", "freeswitch/xml", "\"", ">",
      "<", "section", " name=", "\"", "configuration", "\"", ">",
      "<", "result", " status=", "\"", "error", "\"", "/>",
      "</", "section", ">", "</", "document", ">">>

\* the document up to <profiles>
ConfigurationHead ==
    <<"<?", "xml", " version=", "\"", "1.0", "\"", " encoding=", "\"", "UTF-8", "\"",
      " standalone=", "\"", "no", "\"", "?>", "\n",
      "<", "document", " type=", "\"", "freeswitch/xml", "\"", ">",
      "<", "section", " name=", "\"", "configuration", "\"", ">",
      "<", "configuration", " name=", "\"", "sofia.conf", "\"",
      " description=", "\"", "Sofia SIP Endpoint", "\"",
      " autoload_profiles=", "\"", "true", "\"", ">",
      "<", "profiles", ">">>

\* the static internal profile
InternalProfile ==
    <<"<", "profile", " name=", "\"", "internal", "\"", ">",
      "<", "aliases", ">", "</", "aliases", ">",
      "<", "gateways", ">", "</", "gateways", ">",
      "<", "domains", ">",
      "<", "domain", " name=", "\"", "all", "\"", " alias=", "\"", "true", "\"",
      " parse=", "\"", "false", "\"", "/>",
      "</", "domains", ">",
      "<", "settings", ">">>
    \o ParamsXml(<<
        <<"debug", "0">>, <<"sip-trace", "no">>, <<"sip-capture", "no">>,
        <<"watchdog-enabled", "no">>, <<"watchdog-step-timeout", "30000">>,
        <<"watchdog-event-timeout", "30000">>, <<"log-auth-failures", "false">>,
        <<"forward-unsolicited-mwi-notify", "false">>, <<"context", "default">>,
        <<"rfc2833-pt", "101">>, <<"sip-port", "5060">>, <<"dialplan", "XML">>,
        <<"dtmf-duration", "2000">>, <<"inbound-codec-prefs", "PCMA,PCMU">>,
        <<"outbound-codec-prefs", "PCMA,PCMU">>, <<"rtp-timer-name", "soft">>,
        <<"track-calls", "true">>, <<"rtp-ip", "auto">>, <<"sip-ip", "auto">>,
        <<"hold-music", "${hold_music}">>, <<"apply-nat-acl", "nat.auto">>,
        <<"apply-inbound-acl", "domains">>, <<"local-network-acl", "localnet.auto">>,
        <<"record-path", "/usr/local/freeswitch/recordings">>,
        <<"record-template",
          "${caller_id_number}.${target_domain}.${strftime(%Y-%m-%d-%H-%M-%S)}.wav">>,
        <<"manage-presence", "true">>, <<"presence-hosts", "${domain},${local_ip_v4}">>,
        <<"presence-privacy", "clear">>, <<"inbound-codec-negotiation", "generous">>,
        <<"tls", "false">>, <<"tls-only", "false">>,
        <<"tls-bind-params", "transport=tls">> >>)
    \o <<"</", "settings", ">", "</", "profile", ">">>

\* the profile opened before the pool is looked at (lines 103-108)
SignalProfileHead ==
    <<"<", "profile", " name=", "\"", "signal", "\"", ">",
      "<", "aliases", ">",
      "<", "alias", " name=", "\"", "external_sip_trunks", "\"", "/>",
      "</", "aliases", ">",
      "<", "gateways", ">">>

\* `<param name="n" value="${v}"/>` when v is truthy
OptionalParamXml(name, value) == IF Truthy(value) THEN ParamXml(name, value) ELSE <<>>

\* one gateway element of the forEach
GatewayXml(gateway) ==
    <<"<", "gateway", " name=", "\"">> \o gateway.name \o <<"\"", ">">>
    \o OptionalParamXml(<<"realm">>, gateway.realm)
    \o OptionalParamXml(<<"username">>, gateway.username)
    \o OptionalParamXml(<<"password">>, gateway.password)
    \o OptionalParamXml(<<"proxy">>, gateway.proxy)
    \o ParamXml(<<"register">>, IF gateway.register THEN <<"true">> ELSE <<"false">>)
    \o ParamXml(<<"extension">>, <<"auto_to_user">>)
    \o ParamXml(<<"dtmf-type">>, OrElse(gateway.dtmf_type, <<"rfc2833">>))
    \o ParamsXml(<<
        <<"caller-id-in-from", "false">>, <<"sip-options-ping-interval", "30">>,
        <<"sip-options-ping-tries", "3">>,
        <<"sip-options-ping-puts-gateway-on-fail", "true">>,
        <<"register-expires", "260">>, <<"expire-seconds", "260">>,
        <<"register-retry-seconds", "1">>, <<"ping", "true">>,
        <<"codec-prefs", "OPUS,G722,PCMU,PCMA,G729,VP8,H264">>,
        <<"sip-options-ping-interval", "30">>, <<"sip-options-ping-tries", "3">>,
        <<"register-expires", "30">>, <<"register-retry-seconds", "1">>,
        <<"rtp-hold-timeout-sec", "30">>, <<"inbound-codec-negotiation", "generous">>,
        <<"inbound-late-negotiation", "true">>, <<"manage-presence", "false">>,
        <<"auth-calls", "false">> >>)
    \o OptionalParamXml(<<"register-transport">>, gateway.register_transport)
    \o (IF Truthy(gateway.rtp_secure_media)
        THEN ParamsXml(<<
                <<"debug", "1">>, <<"track-calls", "true">>, <<"auth-calls", "false">>,
                <<"inbound-codec-prefs", "OPUS,PCMU,PCMA">>,
                <<"outbound-codec-prefs", "OPUS,PCMU,PCMA">>,
                <<"rtp-timeout-sec", "30">>, <<"session-expires", "120">> >>)
             \o <<"<", "variables", ">">>
             \o VariableXml(<<"rtp_secure_media">>, gateway.rtp_secure_media)
             \o <<"</", "variables", ">">>
        ELSE <<>>)
    \o <<"</", "gateway", ">">>

RECURSIVE GatewaysXml(_)
\* globalGateways.forEach
GatewaysXml(globalGateways) ==
    IF globalGateways = <<>> THEN <<>>
    ELSE GatewayXml(Head(globalGateways)) \o GatewaysXml(Tail(globalGateways))

\* the end of the signal profile, after the gateways (lines 157-186)
SignalProfileTail ==
    <<"</", "gateways", ">", "<", "settings", ">">>
    \o ParamsXml(<<
        <<"debug", "1">>, <<"user-agent", "FreeSWITCH-FS-Trunk">>, <<"nonce-ttl", "60">>,
        <<"auth-calls", "false">>, <<"inbound-codec-prefs", "OPUS,PCMU,PCMA">>,
        <<"outbound-codec-prefs", "OPUS,PCMU,PCMA">>, <<"session-expires", "120">>,
        <<"sip-options-ping-interval", "30">>, <<"sip-options-ping-tries", "3">>,
        <<"sip-options-ping-puts-gateway-on-fail", "true">>,
        <<"register-expires", "260">>, <<"register-retry-seconds", "1">>,
        <<"rtp-hold-timeout-sec", "30">>, <<"context", "public">>,
        <<"aggressive-nat-detection", "true">>, <<"rtp-ip", "0.0.0.0">>,
        <<"sip-ip", "0.0.0.0">>, <<"ext-rtp-ip", "$${external_rtp_ip}">>,
        <<"ext-sip-ip", "$${external_sip_ip}">>, <<"apply-nat-acl", "nat.auto">>,
        <<"manage-presence", "false">>, <<"sip-port", "5080">>,
        <<"challenge-realm", "${domain}">>, <<"ping", "true">> >>)
    \o <<"</", "settings", ">", "</", "profile", ">">>

\* the profile appended when the pool is empty (lines 189-217)
ExternalProfile ==
    <<"<", "profile", " name=", "\"", "external", "\"", ">",
      "<", "gateways", ">", "</", "gateways", ">",
      "<", "settings", ">">>
    \o ParamsXml(<<
        <<"debug", "1">>, <<"dialplan", "signalwire">>, <<"context", "default">>,
        <<"rtp-timer-name", "soft">>, <<"rtp-ip", "10.0.0.2">>, <<"sip-ip", "10.0.0.2">>,
        <<"ext-rtp-ip", "67.217.242.171">>, <<"ext-sip-ip", "67.217.242.171">>,
        <<"rtp-timeout-sec", "300">>, <<"rtp-hold-timeout-sec", "1800">>,
        <<"sip-port", "6050">>, <<"tls", "True">>, <<"tls-only", "true">>,
        <<"tls-bind-params", "transport=tls">>, <<"tls-sip-port", "6050">>,
        <<"tls-verify-date", "true">>, <<"tls-verify-policy", "none">>,
        <<"tls-verify-depth", "2">>,
        <<"codec-prefs", "OPUS,G722,PCMU,PCMA,VP8,H264">>,
        <<"inbound-codec-negotiation", "generous">>,
        <<"inbound-late-negotiation", "true">>, <<"manage-presence", "false">>,
        <<"auth-calls", "false">> >>)
    \o <<"</", "settings", ">", "</", "profile", ">">>

ConfigurationTail ==
    <<"</", "profiles", ">", "</", "configuration", ">", "</", "section", ">",
      "</", "document", ">">>

\* lookup answers before reading the pool
ConfigurationReturnsEarly(body) == body["key_value"] # <<"sofia.conf">>

\* what lookup returns once getAllExternalGateways resolved to globalGateways
SofiaConf(globalGateways) ==
    ConfigurationHead \o InternalProfile \o SignalProfileHead
    \o (IF Len(globalGateways) > 0
        THEN GatewaysXml(globalGateways) \o SignalProfileTail
        ELSE ExternalProfile)
    \o ConfigurationTail

\* ------------------------------------------------------------------------
\* The data the model runs on
\* ------------------------------------------------------------------------

DomA == <<"a", ".", "e", "x">>
DomAUpper == <<"A", ".", "E", "X">>
DomB == <<"b", ".", "e", "x">>
DomC == <<"c", ".", "e", "x">>

U1001 == <<"1", "0", "0", "1">>
U1002 == <<"1", "0", "0", "2">>
U1003 == <<"1", "0", "0", "3">>
U1881 == <<"1", "8", "8", "1">>
Ring == <<"r", "i", "n", "g">>
U2001 == <<"2", "0", "0", "1">>
Sales == <<"s", "a", "l", "e", "s">>

\* ten-digit national numbers 512555000k and 512555010k, and their E.164 form
National(k) == <<"5", "1", "2", "5", "5", "5", "0", "0", "0", k>>
E164(n) == <<"+", "1">> \o n
CallerNumber == <<"5", "1", "2", "5", "5", "5", "0", "1", "0", "0">>
DialedPstn == <<"5", "1", "2", "5", "5", "5", "9", "9", "9", "9">>

SipClient(user_id, timeout, vm) ==
    [user_id |-> user_id, no_answer_timeout |-> timeout, enable_voicemail |-> vm,
     local_caller_id_name |-> Undef, display_name |-> Undef,
     password |-> <<"pw-">> \o user_id, voicemail_pin |-> Undef, voicemail_email |-> Undef]

Group(name, type, timeout, members, vm, box, action) ==
    [name |-> name, type |-> type, timeout |-> timeout,
     members |-> [i \in 1..Len(members) |-> [user_id |-> members[i]]],
     enable_voicemail |-> vm, voicemail_box_id |-> box, no_answer_action |-> action,
     voicemail_pin |-> Undef, group_email |-> Undef]

Did(number, active, type, target, ftype, ftarget) ==
    [did_number |-> number, active |-> active, routing_type |-> type,
     routing_target |-> target, failover_routing_type |-> ftype,
     failover_routing_target |-> ftarget, voicemail_pin |-> Undef,
     voicemail_email |-> Undef, routing_target_type |-> Undef,
     routing_target_id |-> Undef, description |-> Undef]

Entry(name, field, expression, actions) ==
    [name |-> name, condition_field |-> field, condition_expression |-> expression,
     actions |-> actions]

Profile == [defaultCallerID |-> [name |-> Undef, number |-> Undef]]

TenantA ==
    [domain_name |-> DomA,
     profile |-> Profile,
     sip_clients |-> <<SipClient(U1001, <<25>>, TRUE), SipClient(U1002, <<>>, FALSE),
                       SipClient(U1003, <<0>>, FALSE), SipClient(Sales, <<>>, FALSE),
                       SipClient(U1881, <<>>, FALSE), SipClient(DialedPstn, <<>>, FALSE)>>,
     groups |-> <<Group(Sales, <<"hunt">>, <<20>>, <<U1001, U1002>>, FALSE, Undef,
                        Act(Undef, Undef)),
                  Group(Ring, <<"ring">>, <<>>, <<U1002, U1001>>, FALSE, Undef,
                        Act(Undef, Undef)),
                  Group(<<"7", "7">>, <<"ring">>, <<15>>, <<>>, FALSE, Undef,
                        Act(Undef, Undef))>>,
     dialplan |-> [default |->
        <<Entry(<<"by_caller">>, <<"caller_id_number">>, <<"^", "1", "0", "0", "1", "$">>,
                <<Act(<<"hangup">>, <<>>)>>),
          Entry(<<"conference">>, <<"destination_number">>, <<"^", "7", "7", "$">>,
                <<Act(<<"answer">>, <<>>), Act(<<"conference">>, <<"room77">>)>>),
          Entry(<<"paging">>, <<"destination_number">>, <<"8", "8">>,
                <<Act(<<"answer">>, <<>>), Act(<<"playback">>, <<"tone_stream://%(200,0,440)">>)>>),
          Entry(<<"late">>, <<"destination_number">>, <<"^", "1", "8", "8", "1", "$">>,
                <<Act(<<"hangup">>, <<>>)>>),
          Entry(<<"star">>, <<"destination_number">>, <<"9", "8">>,
                <<Act(<<"hangup">>, <<>>)>>)>>],
     dids |->
        <<Did(E164(National("1")), TRUE, <<"extension">>, U1001,
              <<"dialplan_extension">>, <<"voicemail_">> \o U1001),
          Did(E164(National("2")), TRUE, <<"extension">>, <<"1", "0", "0", "9">>, Undef, Undef),
          Did(E164(National("3")), TRUE, <<"group">>, Sales,
              <<"dialplan_extension">>, <<"9", "0", "0", "0">>),
          Did(E164(National("4")), TRUE, <<"group">>, <<"g", "h", "o", "s", "t">>, Undef, Undef),
          Did(E164(National("5")), FALSE, <<"extension">>, U1001, Undef, Undef),
          Did(E164(National("6")), TRUE, <<"ivr">>, <<"m", "a", "i", "n">>, Undef, Undef),
          Did(E164(National("7")), TRUE, <<"custom">>, <<"p", "a", "r", "k">>, Undef, Undef)>>]

TenantB ==
    [domain_name |-> DomB,
     profile |-> Profile,
     sip_clients |-> <<SipClient(U2001, <<>>, TRUE)>>,
     groups |-> <<>>,
     dialplan |-> [default |->
        <<Entry(<<"broken">>, <<"destination_number">>, <<"^", "(", "9", "$">>,
                <<Act(<<"hangup">>, <<>>)>>)>>],
     dids |-> <<Did(E164(National("9")), TRUE, <<"extension">>, U2001, Undef, Undef)>>]

\* the tenants collection
Tenants == <<TenantA, TenantB>>

\* a record of the external_gateways collection
Gateway(name, realm, register, transport, srtp) ==
    [name |-> name, realm |-> realm, username |-> <<"trunk-user">>,
     password |-> <<"trunk-pw">>, proxy |-> Undef, register |-> register,
     dtmf_type |-> Undef, register_transport |-> transport, rtp_secure_media |-> srtp]

Sw1 == Gateway(<<"s", "w", "1">>, <<"sip.sw1.ex">>, TRUE, <<"tls">>, <<"mandatory">>)
Sw2 == Gateway(<<"s", "w", "2">>, Undef, FALSE, Undef, Undef)

\* the external_gateways collection: empty, one record, or two
GatewayPools == {<<>>, <<Sw1>>, <<Sw2, Sw1>>}

Channel(user, domain) == <<"sofia/internal/">> \o user \o <<"@">> \o domain

\* a destination that closes the attribute it is written into
Breakout == <<"\"", ">", "<", "extension", " name=", "\"", "x">>

Domains == {DomA, DomB, DomC, Undef}
Channels == {Undef, Channel(U1001, DomA), Channel(U1001, DomAUpper), Channel(U2001, DomB)}
Contexts == {Undef, <<"default">>, <<"features">>}
Destinations ==
    {Undef, VOICEMAIL_CHECK_EXTENSION, U1001, U1003, Sales, Ring, <<"7", "7">>, U1881,
     DialedPstn, E164(DialedPstn), <<"1">> \o DialedPstn, <<"+">> \o DialedPstn,
     <<"9", "9">>, Breakout}
DidOverrides == {Undef, U1002}

TrunkHints ==
    {Undef, National("1"), National("8")} \cup {E164(National(k)) : k \in {"1", "2", "3", "4", "5", "6", "7"}}
TrunkCallerNumbers == {Undef, CallerNumber, E164(CallerNumber)}
TrunkCallerNames == {Undef, <<"B", "o", "b">>, <<"\"", "B">>}

MkBody(domain, context, destination, channel, override, hint, number, name) ==
    [k \in BodyKeys |->
        CASE k = "domain" -> domain
          [] k = "Caller-Context" -> context
          [] k = "Caller-Destination-Number" -> destination
          [] k = "Caller-Channel-Name" -> channel
          [] k = "variable_signalwire_actual_did" -> override
          [] k = "variable_sip_to_user" -> hint
          [] k = "Caller-Caller-ID-Number" -> number
          [] k = "Caller-Caller-ID-Name" -> name
          [] OTHER -> Undef]

\* requests of the internal contexts, from a registered phone
InternalBodies ==
    {MkBody(d, c, n, ch, o, Undef, U1001, Undef) :
        d \in Domains, c \in Contexts, n \in Destinations, ch \in Channels,
        o \in DidOverrides}

\* requests of the internal contexts that carry no caller number
AnonymousBodies ==
    {MkBody(DomA, Undef, n, Undef, Undef, Undef, Undef, Undef) : n \in Destinations}

\* requests from the trunk
PublicBodies ==
    {MkBody(DomA, <<"public">>, n, Undef, Undef, h, num, name) :
        n \in {Undef, <<"5", "5", "5">>}, h \in TrunkHints,
        num \in TrunkCallerNumbers, name \in TrunkCallerNames}

\* requests that give domain, context, destination and hint under their second names
AliasBodies ==
    {[NoBody EXCEPT !["variable_sip_to_host"] = DomA,
                    !["variable_dialplan_context"] = c,
                    !["destination_number"] = U1001,
                    !["variable_sip_dest_user"] = E164(National("1")),
                    !["Caller-Caller-ID-Number"] = CallerNumber] :
        c \in {<<"default">>, <<"public">>}}
    \cup {[NoBody EXCEPT !["variable_domain_name"] = DomA, !["destination_number"] = U1002]}

Bodies == InternalBodies \cup AnonymousBodies \cup PublicBodies \cup AliasBodies

CnamRecord ==
    [national_number_formatted |-> <<"(512) 555-0100">>, has_cnam |-> TRUE,
     caller_id |-> <<"JOHN DOE">>, location |-> <<"Austin">>]

\* the replies of the CNAM service
CnamReplies ==
    {[kind |-> "network", data |-> NullCnam],
     [kind |-> "non2xx", data |-> NullCnam],
     [kind |-> "null", data |-> NullCnam],
     [kind |-> "json", data |-> CnamRecord],
     [kind |-> "json", data |-> [CnamRecord EXCEPT !.has_cnam = FALSE]]}

\* ------------------------------------------------------------------------
\* The state machine: one dialplan lookup at a time, cut at its awaits
\* ------------------------------------------------------------------------

VARIABLES
    store,            \* the tenants collection
    gateways,         \* the external_gateways collection
    credentials,      \* SIGNALWIRE_PROJECT_ID, _API_TOKEN and _SPACE_URL are all set
    pc,               \* where the lookup in progress stands
    body,             \* its request body
    lookupTenant,     \* const tenant of lookup (line 537)
    cnamData,         \* const cnamData of handleInboundCall (line 88)
    cnamReply,        \* the reply of the CNAM service, "none" when it was not asked
    tenant,           \* the undeclared variable handleInboundCall assigns (line 105)
    matchedExtension, \* let matchedExtension of lookup
    caught,           \* "none", or the step whose exception the catch block of lookup caught
    result,           \* what lookup returned to its caller
    response,         \* the last exchange of router.post: the request and what res sent
    admin,            \* the tenantService delete in progress, and the deletes that succeeded
    calls,            \* the tenantService adds, updates and deletes in flight, by caller
    parked            \* the local variables of the lookup suspended at an await

vars == <<store, gateways, credentials, pc, body, lookupTenant, cnamData, cnamReply,
          tenant, matchedExtension, caught, result, response, admin, calls, parked>>

NoReply == [kind |-> "none", data |-> NullCnam]

\* no delete was called yet
NoAdmin ==
    [op |-> "none", domainName |-> Undef, id |-> Undef, step |-> "idle",
     doc |-> NullTenant, outcome |-> "none", deleted |-> {}]

\* no add, update or delete is in flight
NoCalls == <<>>

\* the local variables of a lookup that has not been called
NoLookup ==
    [pc |-> "idle", body |-> NoBody, lookupTenant |-> NullTenant, cnamData |-> NullCnam,
     cnamReply |-> NoReply, matchedExtension |-> NullExt, caught |-> "none",
     result |-> Answer(<<>>)]

\* nothing was sent yet
NoResponse == [request |-> NoBody, status |-> 0, body |-> <<>>, caught |-> "none"]

Init ==
    /\ store = Tenants
    /\ gateways \in GatewayPools
    /\ credentials \in BOOLEAN
    /\ pc = "idle"
    /\ body = NoBody
    /\ lookupTenant = NullTenant
    /\ cnamData = NullCnam
    /\ cnamReply = NoReply
    /\ tenant = NullTenant
    /\ matchedExtension = NullExt
    /\ caught = "none"
    /\ result = Answer(<<>>)
    /\ response = NoResponse
    /\ admin = NoAdmin
    /\ calls = NoCalls
    /\ parked = NoLookup

\* lookup returns the emitted document for program e (lines 598-600)
Emit(e) ==
    /\ matchedExtension' = e
    /\ result' = LookupEmit(body, e)
    /\ caught' = "none"
    /\ pc' = "done"

\* an exception inside the try block: the catch block answers (lines 601-604)
Catch(step) ==
    /\ result' = LookupCatch(body)
    /\ caught' = step
    /\ pc' = "done"
    /\ UNCHANGED matchedExtension

\* a handler result r ends the lookup
Finish(r) == IF r.threw THEN Catch("handleLocalCall") ELSE Emit(r.ext)

\* lookup is called with b and runs to its first await (lines 520-537)
Receive(b) ==
    /\ pc = "idle"
    /\ body' = b
    /\ pc' = "tenantRead"
    /\ UNCHANGED <<store, admin, calls, parked, gateways, credentials, response, lookupTenant, cnamData, cnamReply, tenant,
                   matchedExtension, caught, result>>

\* getTenantByDomain resolves; lookup runs to its next await or to its end
\* (lines 537-596)
TenantReadReturns ==
    /\ pc = "tenantRead"
    /\ LET t == getTenantByDomain(store, LookupDomain(body))
           context == RequestedContext(body)
       IN  /\ lookupTenant' = t
           /\ IF IsNullTenant(t) /\ context # <<"public">>
              THEN Emit(NoTenantFound(body))
              ELSE IF context = <<"public">>
              THEN IF Truthy(ActualDidFromTrunk(body))
                   THEN pc' = "cnam" /\ UNCHANGED <<matchedExtension, caught, result>>
                   ELSE Emit(PublicNoDidFound(body))
              ELSE IF context = <<"default">>
              THEN IF InterDomain(body)
                   THEN Emit(BlockInterdomainCall(body))
                   ELSE IF OutboundMatchThrows(EffectiveDestination(body))
                   THEN Catch("handleOutboundCall")
                   ELSE IF OutboundReadsGateways(EffectiveDestination(body))
                   THEN pc' = "gatewayRead" /\ UNCHANGED <<matchedExtension, caught, result>>
                   ELSE Finish(LocalThenFallback(body, t))
              ELSE Emit(getNoMatchFallback(Destination(body)))
    /\ UNCHANGED <<store, admin, calls, parked, gateways, credentials, response, body, cnamData, cnamReply, tenant>>

\* the store read of getTenantByDomain fails; it rethrows (lines 15-18)
TenantReadThrows ==
    /\ pc = "tenantRead"
    /\ TenantReadTouchesStore(LookupDomain(body))
    /\ Catch("getTenantByDomain")
    /\ UNCHANGED <<store, admin, calls, parked, gateways, credentials, response, body, lookupTenant, cnamData, cnamReply, tenant>>

\* lookupCnam throws before calling the service (lines 26-32)
CnamRejects ==
    /\ pc = "cnam"
    /\ CnamRejectsBeforeFetch(body["Caller-Caller-ID-Number"], credentials)
    /\ Catch("lookupCnam")
    /\ UNCHANGED <<store, admin, calls, parked, gateways, credentials, response, body, lookupTenant, cnamData, cnamReply, tenant>>

\* the CNAM service replies; handleInboundCall runs to the DID read (lines 88-105)
CnamReturns(reply) ==
    /\ pc = "cnam"
    /\ ~CnamRejectsBeforeFetch(body["Caller-Caller-ID-Number"], credentials)
    /\ cnamReply' = reply
    /\ IF CnamFetchThrows(reply)
       THEN Catch("lookupCnam") /\ UNCHANGED cnamData
       ELSE IF CnamDisplayThrows(CnamFetchValue(reply))
       THEN Catch("handleInboundCall") /\ UNCHANGED cnamData
       ELSE /\ cnamData' = CnamFetchValue(reply)
            /\ pc' = "didRead"
            /\ UNCHANGED <<matchedExtension, caught, result>>
    /\ UNCHANGED <<store, admin, calls, parked, gateways, credentials, response, body, lookupTenant, tenant>>

\* handleInboundCall building its program from the shared variable as another
\* lookup left it, and assigning its own tenant afterwards: what C27 rules out
DidReadReturnsStale ==
    /\ pc = "didRead"
    /\ tenant' = getTenantAndDidByDidNumber(store, ActualDidFromTrunk(body))
    /\ Emit(InboundProgram(body, cnamData, tenant, ActualDidFromTrunk(body)))
    /\ UNCHANGED <<store, admin, calls, parked, gateways, credentials, response, body, lookupTenant, cnamData, cnamReply>>

\* getTenantAndDidByDidNumber resolves; handleInboundCall and lookup run to
\* their end (lines 105-250, 598-600)
DidReadReturns ==
    /\ pc = "didRead"
    /\ tenant' = getTenantAndDidByDidNumber(store, ActualDidFromTrunk(body))
    /\ Emit(InboundProgram(body, cnamData, tenant', ActualDidFromTrunk(body)))
    /\ UNCHANGED <<store, admin, calls, parked, gateways, credentials, response, body, lookupTenant, cnamData, cnamReply>>

\* the store read of getTenantAndDidByDidNumber fails; it rethrows (lines 614-618)
DidReadThrows ==
    /\ pc = "didRead"
    /\ Catch("getTenantAndDidByDidNumber")
    /\ UNCHANGED <<store, admin, calls, parked, gateways, credentials, response, body, lookupTenant, cnamData, cnamReply, tenant>>

\* getAllExternalGateways resolves; handleOutboundCall and lookup run to their
\* end (lines 265-288, 586-600)
GatewayReadReturns ==
    /\ pc = "gatewayRead"
    /\ LET e == OutboundProgram(gateways, EffectiveDestination(body))
       IN  IF ~IsNullExt(e) THEN Emit(e) ELSE Finish(LocalThenFallback(body, lookupTenant))
    /\ UNCHANGED <<store, admin, calls, parked, gateways, credentials, response, body, lookupTenant, cnamData, cnamReply, tenant>>

\* the store read of getAllExternalGateways fails; it rethrows
GatewayReadThrows ==
    /\ pc = "gatewayRead"
    /\ Catch("getAllExternalGateways")
    /\ UNCHANGED <<store, admin, calls, parked, gateways, credentials, response, body, lookupTenant, cnamData, cnamReply, tenant>>

\* the caller takes the answer; the next request may come
Deliver ==
    /\ pc = "done"
    /\ pc' = "idle"
    /\ body' = NoBody
    /\ lookupTenant' = NullTenant
    /\ cnamData' = NullCnam
    /\ cnamReply' = NoReply
    /\ matchedExtension' = NullExt
    /\ caught' = "none"
    /\ result' = Answer(<<>>)
    /\ UNCHANGED <<store, admin, calls, parked, gateways, credentials, response, tenant>>

Next ==
    \/ \E b \in Bodies : Receive(b)
    \/ TenantReadReturns
    \/ TenantReadThrows
    \/ CnamRejects
    \/ \E reply \in CnamReplies : CnamReturns(reply)
    \/ DidReadReturns
    \/ DidReadThrows
    \/ GatewayReadReturns
    \/ GatewayReadThrows
    \/ Deliver

Spec == Init /\ [][Next]_vars

\* ------------------------------------------------------------------------
\* Reading a document back: the elements a lenient XML reader finds in it
\* ------------------------------------------------------------------------

AttributeNames ==
    {" version=", " encoding=", " standalone=", " type=", " name=", " field=",
     " expression=", " application=", " data=", " id=", " mailbox=", " value=",
     " status=", " description=", " autoload_profiles=", " alias=", " parse="}

Top(stack) == IF stack = <<>> THEN "" ELSE stack[Len(stack)]
Pop(stack) == IF stack = <<>> THEN <<>> ELSE SubSeq(stack, 1, Len(stack) - 1)

\* the reader before the first character
ScanStart ==
    [mode |-> "text", stack |-> <<>>, cur |-> [tag |-> "", parent |-> "", attrs |-> <<>>],
     att |-> [name |-> "", value |-> <<>>], out |-> <<>>]

\* the reader st after character c: mode is where it stands, stack the elements
\* open, cur the element whose tag is being read, att the attribute whose value
\* is being read, out the elements read so far
ScanStep(st, c) ==
    CASE st.mode = "text" ->
            IF c = "<?" THEN [st EXCEPT !.mode = "pi"]
            ELSE IF c = "</" THEN [st EXCEPT !.mode = "close", !.stack = Pop(@)]
            ELSE IF c = "<" THEN [st EXCEPT !.mode = "name"]
            ELSE st
      [] st.mode = "name" ->
            [st EXCEPT !.mode = "tag",
                       !.cur = [tag |-> c, parent |-> Top(st.stack), attrs |-> <<>>]]
      [] st.mode = "pi" -> IF c = "?>" THEN [st EXCEPT !.mode = "text"] ELSE st
      [] st.mode = "close" -> IF c = ">" THEN [st EXCEPT !.mode = "text"] ELSE st
      [] st.mode = "tag" ->
            IF c = ">"
            THEN [st EXCEPT !.mode = "text", !.stack = Append(@, st.cur.tag),
                            !.out = Append(@, st.cur)]
            ELSE IF c = "/>" THEN [st EXCEPT !.mode = "text", !.out = Append(@, st.cur)]
            ELSE IF c \in AttributeNames
            THEN [st EXCEPT !.mode = "equals", !.att = [name |-> c, value |-> <<>>]]
            ELSE st
      [] st.mode = "equals" ->
            IF c = "\"" THEN [st EXCEPT !.mode = "value"] ELSE [st EXCEPT !.mode = "tag"]
      [] OTHER ->
            IF c = "\""
            THEN [st EXCEPT !.mode = "tag", !.cur.attrs = Append(@, st.att)]
            ELSE [st EXCEPT !.att.value = Append(@, c)]

RECURSIVE Scan(_, _, _, _)
\* the reader st after the characters lo..hi of doc
Scan(doc, lo, hi, st) ==
    IF lo > hi THEN st
    ELSE IF lo = hi THEN ScanStep(st, doc[lo])
    ELSE LET mid == (lo + hi) \div 2
             left == Scan(doc, lo, mid, st)
         IN  \* the test has left computed before the right half is entered
             IF left.mode = "" THEN left ELSE Scan(doc, mid + 1, hi, left)

\* the elements of doc in document order, each with its parent and attributes
Elements(doc) == Scan(doc, 1, Len(doc), ScanStart).out

\* the elements of doc with tag t
ElementsOf(doc, t) == SelectSeq(Elements(doc), LAMBDA e : e.tag = t)

\* the value of attribute n of element e, Undef when e has none
Attr(e, n) ==
    LET i == FindIndex(e.attrs, LAMBDA a : a.name = n)
    IN  IF i = 0 THEN Undef ELSE e.attrs[i].value

\* the actions of doc as (application, data) pairs, data "" when not given
DocActions(doc) ==
    LET as == ElementsOf(doc, "action")
    IN  [i \in 1..Len(as) |->
            Act(Attr(as[i], " application="), OrElse(Attr(as[i], " data="), <<>>))]

\* the applications of a list of actions
Applications(actions) == [i \in 1..Len(actions) |-> actions[i].application]

\* the data of an action as the switch gets it
DataOf(action) == OrElse(action.data, <<>>)

\* the program of doc, as (application, data) pairs
PairsOf(actions) == [i \in 1..Len(actions) |-> Act(actions[i].application, DataOf(actions[i]))]

RECURSIVE IsSubsequence(_, _)
\* the elements of a occur in b, in that order
IsSubsequence(a, b) ==
    IF a = <<>> THEN TRUE
    ELSE IF b = <<>> THEN FALSE
    ELSE IF Head(a) = Head(b) THEN IsSubsequence(Tail(a), Tail(b))
    ELSE IsSubsequence(a, Tail(b))

\* the lookup in progress has answered
Done == pc = "done"

\* the extension program the answer was emitted from (none when caught)
Program == EmittedExtension(matchedExtension, body)

\* the request of the lookup in progress is in the default context
InDefault == RequestedContext(body) = <<"default">>

\* the request of the lookup in progress came from the trunk with a DID hint
InboundDid == RequestedContext(body) = <<"public">> /\ Truthy(ActualDidFromTrunk(body))

\* answer, playback of the cannot-be-completed announcement, hangup
ErrorActions ==
    <<Act(<<"answer">>, <<>>),
      Act(<<"playback">>, <<"ivr/ivr-call_cannot_be_completed_as_dialed.wav">>),
      Act(<<"hangup">>, <<>>)>>

\* doc has one extension element, named name
OnlyExtensionIs(doc, name) ==
    LET es == ElementsOf(doc, "extension")
    IN  Len(es) = 1 /\ Attr(es[1], " name=") = name

\* ------------------------------------------------------------------------
\* C1
\* ------------------------------------------------------------------------

\* C1: lookup never lets an exception reach its caller.  Whatever the request
\* and whatever the store does (tenant found, tenant missing, a read throwing),
\* it returns a document; and when a step inside it throws (the tenant read,
\* the gateway read, ...), that document is the application-error program:
\* answer, playback of the cannot-be-completed announcement, hangup, in order.
C1_LookupNeverThrows ==
    Done =>
        /\ ~result.raised
        /\ result.doc # <<>>
        /\ caught # "none" =>
              /\ OnlyExtensionIs(result.doc, <<"application_error">>)
              /\ DocActions(result.doc) = ErrorActions

\* a lookup whose gateway read threw has answered
C1_Witness ==
    Done /\ caught = "getAllExternalGateways" /\ DocActions(result.doc) = ErrorActions

\* ------------------------------------------------------------------------
\* C2
\* ------------------------------------------------------------------------

\* C2 as stated: for every request (any context, any destination, tenant
\* present or absent, any handler result, null included) the returned document
\* holds exactly one extension element, inside exactly one context element.
C2_OneExtensionInOneContext ==
    Done =>
        LET es == ElementsOf(result.doc, "extension")
            cs == ElementsOf(result.doc, "context")
        IN  Len(cs) = 1 /\ Len(es) = 1 /\ es[1].parent = "context"

\* ------------------------------------------------------------------------
\* C3
\* ------------------------------------------------------------------------

\* C3 as stated: for every request the condition expression of the emitted
\* extension begins with "^" and ends with "$", also when local dispatch
\* matched a tenant-defined dialplan entry and emits its stored expression.
C3_ExpressionAnchored ==
    (Done /\ caught = "none") =>
        LET e == Program.expression
        IN  Len(e) >= 2 /\ e[1] = "^" /\ e[Len(e)] = "$"

\* ------------------------------------------------------------------------
\* C4
\* ------------------------------------------------------------------------

\* C4: in the default context, when the domain of Caller-Channel-Name and the
\* request domain are both present and differ after normalization, and the
\* request domain names a tenant, the emitted program has exactly one action,
\* hangup with data CALL_REJECTED.  When no tenant has that domain the program
\* is no_tenant_found (answer, playback, hangup), and when the tenant read
\* fails it is the application-error program.  In none of these cases is a
\* bridge or transfer emitted, whatever the destination.
C4_InterDomainRejected ==
    (Done /\ InDefault /\ InterDomain(body)) =>
        /\ \A i \in 1..Len(DocActions(result.doc)) :
              DocActions(result.doc)[i].application \notin {<<"bridge">>, <<"transfer">>}
        /\ (caught = "none" /\ ~IsNullTenant(lookupTenant)) =>
              /\ Program.name = <<"block-interdomain-call">>
              /\ DocActions(result.doc) = <<Act(<<"hangup">>, <<"CALL_REJECTED">>)>>
        /\ (caught = "none" /\ IsNullTenant(lookupTenant)) =>
              /\ Program.name = <<"no_tenant_found">>
              /\ Applications(DocActions(result.doc))
                 = <<(<<"answer">>), (<<"playback">>), (<<"hangup">>)>>
        /\ caught # "none" => DocActions(result.doc) = ErrorActions

\* an inter-domain request for a destination the tenant could route was rejected
C4_Witness ==
    /\ Done /\ InDefault /\ InterDomain(body) /\ caught = "none"
    /\ ~IsNullTenant(lookupTenant)
    /\ EffectiveDestination(body) = U1001
    /\ DocActions(result.doc) = <<Act(<<"hangup">>, <<"CALL_REJECTED">>)>>

\* C4 as stated: the single hangup CALL_REJECTED is emitted whether or not a
\* tenant exists for the request domain.
C4_AsStated ==
    (Done /\ caught = "none" /\ InDefault /\ InterDomain(body)) =>
        DocActions(result.doc) = <<Act(<<"hangup">>, <<"CALL_REJECTED">>)>>

\* ------------------------------------------------------------------------
\* C5
\* ------------------------------------------------------------------------

\* answer, sleep, voicemail "check default <domain>", hangup
VoicemailCheckActions(domain) ==
    <<Act(<<"answer">>, <<>>),
      Act(<<"sleep">>, <<"1", "0", "0", "0">>),
      Act(<<"voicemail">>, <<"check", " ", "default", " ">> \o domain),
      Act(<<"hangup">>, <<>>)>>

\* C5: for every request in the default context whose effective destination
\* (variable_signalwire_actual_did when present, else the destination) is *98,
\* whose domain names an existing tenant and which the inter-domain guard lets
\* pass, the emitted program contains answer, sleep, voicemail with data
\* "check default <domain>", and hangup, in that relative order.
C5_VoicemailCheck ==
    (Done /\ InDefault /\ ~IsNullTenant(lookupTenant) /\ ~InterDomain(body)
          /\ EffectiveDestination(body) = VOICEMAIL_CHECK_EXTENSION) =>
        /\ caught = "none"
        /\ IsSubsequence(VoicemailCheckActions(LookupDomain(body)), DocActions(result.doc))

\* *98 dialled from a phone of the tenant's own domain has been answered
C5_Witness ==
    /\ Done /\ InDefault /\ ~IsNullTenant(lookupTenant)
    /\ Truthy(FromDomain(body)) /\ ~InterDomain(body)
    /\ EffectiveDestination(body) = VOICEMAIL_CHECK_EXTENSION
    /\ Program.name = <<"check_voicemail">>

\* C5 as stated: every request in the default context whose destination is *98
\* and whose domain names an existing tenant gets that program.
C5_AsStated ==
    (Done /\ caught = "none" /\ InDefault /\ ~IsNullTenant(lookupTenant)
          /\ Destination(body) = VOICEMAIL_CHECK_EXTENSION) =>
        IsSubsequence(VoicemailCheckActions(LookupDomain(body)), DocActions(result.doc))

\* ------------------------------------------------------------------------
\* C6
\* ------------------------------------------------------------------------

\* C6 as stated: a request in the public context that carries a trunk-side DID
\* hint (variable_sip_to_user or variable_sip_dest_user) is answered with a
\* document that declares context name "default", not "public".
C6_InboundDeclaresDefault ==
    (Done /\ caught = "none" /\ InboundDid) =>
        LET cs == ElementsOf(result.doc, "context")
        IN  Len(cs) = 1 /\ Attr(cs[1], " name=") = <<"default">>

\* ------------------------------------------------------------------------
\* C7
\* ------------------------------------------------------------------------

\* C7 as stated: an inbound call in the public context whose trunk hint is
\* the 10-digit form of a DID stored as "+1" and those digits (active, routed
\* to an existing extension) is routed to that DID's target: the emitted
\* program bridges to user/<target>@<tenant domain>.
C7_TenDigitHintRouted ==
    \A t \in 1..Len(store) : \A d \in 1..Len(store[t].dids) :
        LET did == store[t].dids[d]
            hint == ActualDidFromTrunk(body)
        IN  (/\ Done /\ caught = "none" /\ InboundDid
             /\ IsTenDigits(hint)
             /\ did.did_number = <<"+", "1">> \o hint
             /\ did.active
             /\ did.routing_type = <<"extension">>
             /\ \E c \in 1..Len(store[t].sip_clients) :
                    store[t].sip_clients[c].user_id = did.routing_target) =>
                \E i \in 1..Len(DocActions(result.doc)) :
                    DocActions(result.doc)[i]
                    = Act(<<"bridge">>, <<"user/">> \o did.routing_target \o <<"@">>
                                        \o store[t].domain_name)

\* ------------------------------------------------------------------------
\* C8
\* ------------------------------------------------------------------------

\* the document of the lookup in progress had lookupCnam resolved to null
DocumentWithNullCnam ==
    LookupEmit(body,
               InboundProgram(body, NullCnam,
                              getTenantAndDidByDidNumber(store, ActualDidFromTrunk(body)),
                              ActualDidFromTrunk(body)))

\* C8 as stated: for every inbound-DID request and store snapshot, the
\* document produced with CNAM enrichment disabled (credentials not
\* configured) equals the document produced for the same request when the
\* CNAM lookup returns null.
C8_DisabledEqualsNull ==
    (Done /\ InboundDid /\ ~credentials /\ caught # "getTenantByDomain") =>
        result = DocumentWithNullCnam

\* ------------------------------------------------------------------------
\* C9
\* ------------------------------------------------------------------------

\* the CNAM lookup of the lookup in progress failed: credentials or caller
\* number missing, the network failing, a non-2xx status, or a record
\* without its cnam object
CnamFailed ==
    \/ ~credentials
    \/ ~Truthy(body["Caller-Caller-ID-Number"])
    \/ cnamReply.kind \in {"network", "non2xx"}
    \/ (cnamReply.kind = "json" /\ ~cnamReply.data.has_cnam)

\* C9 as stated: a CNAM failure of any kind resolves to null inside the CNAM
\* client and never reaches the resolver as an exception: the inbound call is
\* still routed to its DID target, with the switch-supplied caller name.
C9_CnamFailureIsNull ==
    (/\ Done /\ InboundDid /\ CnamFailed
     /\ caught \notin {"getTenantByDomain", "getTenantAndDidByDidNumber"}) =>
        /\ caught = "none"
        /\ matchedExtension = InboundProgram(body, NullCnam, tenant, ActualDidFromTrunk(body))

\* ------------------------------------------------------------------------
\* C10
\* ------------------------------------------------------------------------

\* no tenant of the store has a DID with this number, as given or with "+1"
NoTenantOwns(number) ==
    \A t \in 1..Len(store) : \A d \in 1..Len(store[t].dids) :
        store[t].dids[d].did_number \notin {number, <<"+", "1">> \o number}

\* a tenant has an active DID with this number whose extension or group
\* routing target it does not have
TargetMissing(number) ==
    \E t \in 1..Len(store) : \E d \in 1..Len(store[t].dids) :
        LET did == store[t].dids[d]
        IN  /\ did.did_number = number /\ did.active
            /\ \/ /\ did.routing_type = <<"extension">>
                  /\ \A c \in 1..Len(store[t].sip_clients) :
                        store[t].sip_clients[c].user_id # did.routing_target
               \/ /\ did.routing_type = <<"group">>
                  /\ \A g \in 1..Len(store[t].groups) :
                        store[t].groups[g].name # did.routing_target

\* C10 as stated: when inbound-DID handling cannot route (no tenant owns the
\* DID, or the matched DID's extension or group target does not exist in the
\* tenant) the emitted program is the announce-and-hangup fallback (answer,
\* playback of an announcement, hangup), and no exception occurs.
C10_UnroutableAnnounces ==
    (/\ Done /\ InboundDid
     /\ caught \notin {"getTenantByDomain", "lookupCnam", "handleInboundCall",
                       "getTenantAndDidByDidNumber"}
     /\ \/ NoTenantOwns(ActualDidFromTrunk(body))
        \/ TargetMissing(ActualDidFromTrunk(body))) =>
        /\ caught = "none"
        /\ Applications(DocActions(result.doc))
           = <<(<<"answer">>), (<<"playback">>), (<<"hangup">>)>>

\* ------------------------------------------------------------------------
\* C11
\* ------------------------------------------------------------------------

\* the last ten characters of s
LastTen(s) == [i \in 1..10 |-> s[Len(s) - 10 + i]]

\* bridge to the trunk with "+1" and the last ten digits of number, then the
\* cannot-be-completed announcement, then hangup
TrunkActions(number) ==
    <<Act(<<"bridge">>, <<"sofia/gateway/", "signalwire", "/", "+", "1">> \o LastTen(number)),
      Act(<<"playback">>, <<"ivr/ivr-call_cannot_be_completed_as_dialed.wav">>),
      Act(<<"hangup">>, <<>>)>>

\* C11: for every request in the default context whose effective destination
\* matches ^(\+?1?)?(\d{10})$, whose domain names an existing tenant and which
\* the inter-domain guard lets pass, with a non-empty gateway pool whose read
\* succeeds, the emitted program has exactly three actions in order: bridge,
\* playback of the cannot-be-completed announcement, hangup; and the bridge
\* data is sofia/gateway/<outbound profile>/ followed by "+1" and the last ten
\* digits of the destination, whatever prefix ("", "1", "+", "+1") it carried.
C11_OutboundProgram ==
    (/\ Done /\ caught = "none" /\ InDefault
     /\ ~IsNullTenant(lookupTenant) /\ ~InterDomain(body)
     /\ MatchesPstn(EffectiveDestination(body))
     /\ gateways # <<>>) =>
        /\ Program.name = <<"outbound_pstn_">> \o LastTen(EffectiveDestination(body))
        /\ DocActions(result.doc) = TrunkActions(EffectiveDestination(body))

\* a destination dialled with the prefix "1" went to the trunk
C11_Witness ==
    /\ Done /\ caught = "none" /\ InDefault /\ gateways # <<>>
    /\ EffectiveDestination(body) = <<"1">> \o DialedPstn
    /\ DocActions(result.doc) = TrunkActions(DialedPstn)

\* C11 as stated: every destination matching the pattern in the default
\* context with a non-empty gateway pool gets that program.
C11_AsStated ==
    (/\ Done /\ caught = "none" /\ InDefault
     /\ MatchesPstn(Destination(body))
     /\ gateways # <<>>) =>
        DocActions(result.doc) = TrunkActions(Destination(body))

\* ------------------------------------------------------------------------
\* C12
\* ------------------------------------------------------------------------

\* local dispatch built the answer of the lookup in progress: a default-context
\* request of an existing tenant that the inter-domain guard let pass and the
\* outbound handler did not take
LocalDispatched ==
    /\ Done /\ caught = "none" /\ InDefault
    /\ ~IsNullTenant(lookupTenant) /\ ~InterDomain(body)
    /\ ~(MatchesPstn(EffectiveDestination(body)) /\ gateways # <<>>)

\* the least element of a non-empty set of numbers
Least(S) == CHOOSE i \in S : \A j \in S : i <= j

\* the groups of tenant t named d, by position
GroupsNamed(t, d) == {i \in 1..Len(t.groups) : t.groups[i].name = d}

\* the dialplan entries of t on destination_number whose expression matches d
EntriesMatching(t, d) ==
    {i \in 1..Len(t.dialplan.default) :
        /\ t.dialplan.default[i].condition_field = <<"destination_number">>
        /\ RegExpTest(t.dialplan.default[i].condition_expression, d)}

\* the SIP clients of t whose user id is d, compared as the resolver compares
ClientsMatching(t, d) ==
    {i \in 1..Len(t.sip_clients) :
        normalizeStringForComparison(t.sip_clients[i].user_id)
        = normalizeStringForComparison(d)}

\* the rules of local dispatch that destination d satisfies for tenant t
RulesSatisfied(t, d) ==
    (IF d = <<"*", "9", "8">> THEN {1} ELSE {})
    \cup (IF GroupsNamed(t, d) # {} THEN {2} ELSE {})
    \cup (IF EntriesMatching(t, d) # {} THEN {3} ELSE {})
    \cup (IF ClientsMatching(t, d) # {} THEN {4} ELSE {})
    \cup (IF MatchesExternal(d) THEN {5} ELSE {})
    \cup {6}

\* C12: local dispatch applies its rules in strict precedence: voicemail
\* check code, group name, tenant dialplan entry, SIP client, external
\* dial-out, fallback.  Whenever a destination satisfies more than one rule the
\* emitted program is the one built by the earliest rule in that order, and
\* within the dialplan-entry rule the first matching entry in stored order wins.
C12_RulePrecedence ==
    LocalDispatched =>
        LET t == lookupTenant
            d == EffectiveDestination(body)
            first == Least(RulesSatisfied(t, d))
        IN  CASE first = 1 -> Program.name = <<"check_voicemail">>
              [] first = 2 ->
                    Program.name
                    = <<"group_">> \o ReplaceNonAlnum(t.groups[Least(GroupsNamed(t, d))].name)
              [] first = 3 ->
                    LET entry == t.dialplan.default[Least(EntriesMatching(t, d))]
                    IN  /\ Program.name = entry.name
                        /\ Program.expression = entry.condition_expression
                        /\ IsSubsequence(PairsOf(entry.actions), DocActions(result.doc))
              [] first = 4 ->
                    Program.name
                    = <<"sip_client_">>
                      \o ReplaceNonAlnum(t.sip_clients[Least(ClientsMatching(t, d))].user_id)
              [] first = 5 -> Program.name = <<"outbound_">> \o ReplaceNonDigit(d)
              [] OTHER -> Program.name = <<"fallback_local_call">>

\* 1881 matches two dialplan entries and a SIP client: the first entry answered
C12_Witness ==
    /\ LocalDispatched
    /\ EffectiveDestination(body) = U1881
    /\ {3, 4} \subseteq RulesSatisfied(lookupTenant, U1881)
    /\ Cardinality(EntriesMatching(lookupTenant, U1881)) = 2
    /\ Program.name = <<"paging">>

\* ------------------------------------------------------------------------
\* C13
\* ------------------------------------------------------------------------

\* the actions of doc with this application
ActionsWith(doc, application) ==
    SelectSeq(DocActions(doc), LAMBDA a : a.application = application)

\* user/<user_id>@<domain> for each member of group g, in stored order
MemberUris(g, domain) ==
    [i \in 1..Len(g.members) |-> <<"user/">> \o g.members[i].user_id \o <<"@">> \o domain]

\* the optional prefix "timeout=<n>," of group g
TimeoutPrefix(g) ==
    IF g.timeout # <<>> /\ g.timeout[1] > 0
    THEN <<"timeout=">> \o NumToStr(g.timeout[1]) \o <<",">> ELSE <<>>

\* the bridge data C13 gives for group g of the tenant with this domain
GroupBridgeData(g, domain) ==
    TimeoutPrefix(g)
    \o Join(MemberUris(g, domain), IF g.type = <<"hunt">> THEN <<"|">> ELSE <<",">>)

\* C13: when local dispatch gets a destination that equals a group name, the
\* bridge data is the optional prefix "timeout=<n>," followed by
\* user/<user_id>@<domain> for each member in stored member order, joined by
\* "|" for a hunt group and by "," for a ring group; a group with zero members
\* yields a bridge whose data is just the optional timeout prefix.
C13_GroupBridgeData ==
    LocalDispatched =>
        \A i \in 1..Len(lookupTenant.groups) :
            EffectiveDestination(body) = lookupTenant.groups[i].name =>
                LET g == lookupTenant.groups[i]
                    bridges == ActionsWith(result.doc, <<"bridge">>)
                IN  /\ Len(bridges) = 1
                    /\ bridges[1].data = GroupBridgeData(g, lookupTenant.domain_name)
                    /\ Len(g.members) = 0 => bridges[1].data = TimeoutPrefix(g)

\* the group without members was dialled: the bridge data is its timeout prefix
C13_Witness ==
    /\ LocalDispatched
    /\ EffectiveDestination(body) = <<"7", "7">>
    /\ Len(lookupTenant.groups[3].members) = 0
    /\ ActionsWith(result.doc, <<"bridge">>)
       = <<Act(<<"bridge">>, <<"timeout=", "1", "5", ",">>)>>

\* ------------------------------------------------------------------------
\* C14
\* ------------------------------------------------------------------------

\* C14 as stated: in the direct-SIP-client program the action
\* "set call_timeout=<t>" carries t equal to the client's no_answer_timeout
\* whenever that attribute is present (for every stored value, 0 included),
\* and 30 only when it is absent; this set action precedes the bridge to
\* user/<user_id>@<domain>.
C14_CallTimeout ==
    (LocalDispatched /\ Least(RulesSatisfied(lookupTenant, EffectiveDestination(body))) = 4) =>
        LET t == lookupTenant
            client == t.sip_clients[Least(ClientsMatching(t, EffectiveDestination(body)))]
            timeout == IF client.no_answer_timeout # <<>>
                       THEN NumToStr(client.no_answer_timeout[1]) ELSE <<"3", "0">>
        IN  IsSubsequence(
                <<Act(<<"set">>, <<"call_timeout=">> \o timeout),
                  Act(<<"bridge">>, <<"user/">> \o client.user_id \o <<"@">> \o t.domain_name)>>,
                DocActions(result.doc))

\* ------------------------------------------------------------------------
\* routes/xmlCurl.js: the switch-facing endpoint, one request at a time
\* ------------------------------------------------------------------------

DomV == <<"v", ".", "e", "x">>
Box700 == <<"7", "0", "0">>
Box750 == <<"7", "5", "0">>
Box800 == <<"8", "0", "0">>
Box810 == <<"8", "1", "0">>
Box900 == <<"9", "0", "0">>
Box910 == <<"9", "1", "0">>
Box950 == <<"9", "5", "0">>
Box960 == <<"9", "6", "0">>
Box999 == <<"9", "9", "9">>

\* a tenant whose clients, group boxes and DID boxes share identifiers: 700 is a
\* client and a group box, 800 a group box and a DID, 1002 a client and a DID;
\* 900 is a DID whose mailbox 910 is nothing else
TenantV ==
    [domain_name |-> DomV,
     profile |-> Profile,
     sip_clients |->
        <<[SipClient(U1001, <<>>, TRUE) EXCEPT !.voicemail_pin = <<"4321">>],
          SipClient(U1002, <<>>, FALSE),
          SipClient(Box700, <<>>, TRUE)>>,
     groups |->
        <<Group(<<"support">>, <<"ring">>, <<>>, <<U1001>>, TRUE, Box700, Act(Undef, Undef)),
          Group(<<"billing">>, <<"ring">>, <<>>, <<U1002>>, TRUE, Box800, Act(Undef, Undef)),
          Group(<<"night">>, <<"ring">>, <<>>, <<U1001>>, FALSE, Box750, Act(Undef, Undef)),
          Group(<<"after">>, <<"hunt">>, <<>>, <<U1002, U1001>>, FALSE, Undef,
                Act(<<"transfer">>, <<"9000 XML default">>)),
          Group(<<"both">>, <<"ring">>, <<>>, <<U1002>>, TRUE, Box700,
                Act(<<"transfer">>, <<"9000 XML default">>))>>,
     dialplan |-> [default |-> <<>>],
     dids |->
        <<Did(Box800, TRUE, <<"group">>, <<"billing">>,
              <<"dialplan_extension">>, <<"voicemail_">> \o Box810),
          Did(Box900, TRUE, <<"extension">>, U1001,
              <<"dialplan_extension">>, <<"voicemail_">> \o Box910),
          Did(U1002, TRUE, <<"extension">>, U1002,
              <<"dialplan_extension">>, <<"voicemail_">> \o Box910),
          Did(Box950, TRUE, <<"extension">>, U1001,
              <<"dialplan_extension">>, <<"9", "0", "0", "0">>),
          Did(Box960, TRUE, <<"extension">>, U1001,
              Undef, <<"voicemail_">> \o Box960)>>]

\* the tenants collection the endpoint is run against
XmlCurlTenants == <<TenantV, TenantA, TenantB>>

DirectoryIds ==
    {Undef, U1001, U1002, Box700, Box750, Box800, Box810, Box900, Box910, Box950,
     Box960, Box999}

DirectoryBody(domain, user, auth) ==
    [NoBody EXCEPT !["section"] = <<"directory">>, !["domain"] = domain,
                   !["user"] = user, !["sip_auth_username"] = auth]

\* directory requests: by user, and by sip_auth_username
DirectoryBodies ==
    {DirectoryBody(d, u, Undef) : d \in {DomV, DomC, Undef}, u \in DirectoryIds}
    \cup {DirectoryBody(DomV, u, a) : u \in {Undef, Box999}, a \in {U1001, Box900}}

\* directory requests of the voicemail module
VoicemailBodies ==
    {[DirectoryBody(d, u, Undef) EXCEPT !["action"] = <<"voicemail-lookup">>] :
        d \in {DomV, DomC}, u \in {U1001, Box800, Box999}}

ConfigurationBodies ==
    {[NoBody EXCEPT !["section"] = <<"configuration">>, !["key_value"] = k] :
        k \in {<<"sofia.conf">>, <<"acl.conf">>, Undef}}

\* dialplan requests: a local call, a PSTN call, a trunk call, an unknown domain
DialplanBodies ==
    {[b EXCEPT !["section"] = <<"dialplan">>] :
        b \in {MkBody(DomA, <<"default">>, U1001, Channel(U1001, DomA), Undef, Undef,
                      U1001, Undef),
               MkBody(DomA, <<"default">>, DialedPstn, Channel(U1001, DomA), Undef, Undef,
                      U1001, Undef),
               MkBody(DomA, <<"public">>, Undef, Undef, Undef, E164(National("1")),
                      CallerNumber, Undef),
               MkBody(DomC, <<"default">>, U1001, Undef, Undef, Undef, U1001, Undef)}
             \cup {MkBody(DomV, <<"default">>, g, Channel(U1001, DomV), Undef, Undef,
                          U1001, Undef) :
                        g \in {<<"support">>, <<"night">>, <<"after">>, <<"both">>}}}

\* requests without a section, and of sections the endpoint does not serve
OtherBodies ==
    {NoBody, [NoBody EXCEPT !["section"] = <<>>],
     [NoBody EXCEPT !["domain"] = DomV, !["user"] = U1001],
     [NoBody EXCEPT !["section"] = <<"phrases">>]}

XmlCurlBodies ==
    DirectoryBodies \cup VoicemailBodies \cup ConfigurationBodies \cup DialplanBodies
    \cup OtherBodies

XmlCurlInit ==
    /\ store = XmlCurlTenants
    /\ gateways \in GatewayPools
    /\ credentials \in BOOLEAN
    /\ pc = "idle"
    /\ body = NoBody
    /\ lookupTenant = NullTenant
    /\ cnamData = NullCnam
    /\ cnamReply = NoReply
    /\ tenant = NullTenant
    /\ matchedExtension = NullExt
    /\ caught = "none"
    /\ result = Answer(<<>>)
    /\ response = NoResponse
    /\ admin = NoAdmin
    /\ calls = NoCalls
    /\ parked = NoLookup

\* what res sends for request req: a status and a body
Sent(req, status, text, step) ==
    [request |-> req, status |-> status, body |-> text, caught |-> step]

\* a controller returns doc without awaiting anything
ReturnsAtOnce(doc) ==
    /\ result' = Answer(doc)
    /\ pc' = "done"
    /\ UNCHANGED response

\* a controller stops at the await named by step
Awaits(step) ==
    /\ pc' = step
    /\ UNCHANGED <<result, response>>

\* router.post is called with req.body = req and runs to its first await, or
\* to its end when it answers 400 or 404 (lines 12-47)
Post(req) ==
    /\ pc = "idle"
    /\ IF ~Truthy(req["section"])
       THEN /\ response' = Sent(req, 400, <<"Missing section">>, "none")
            /\ UNCHANGED <<pc, body, result>>
       ELSE IF req["section"] = <<"directory">>
       THEN /\ body' = req
            /\ IF req["action"] = <<"voicemail-lookup">>
               THEN Awaits("findSipClient")
               ELSE IF DirectoryReturnsEarly(req)
               THEN ReturnsAtOnce(EmptyDirectoryDocument)
               ELSE Awaits("directoryTenantRead")
       ELSE IF req["section"] = <<"configuration">>
       THEN /\ body' = req
            /\ IF ConfigurationReturnsEarly(req)
               THEN ReturnsAtOnce(ConfigurationNotFound)
               ELSE Awaits("configurationRead")
       ELSE IF req["section"] = <<"dialplan">>
       THEN /\ body' = req
            /\ Awaits("tenantRead")
       ELSE /\ response' = Sent(req, 404, <<"Unhandled section">>, "none")
            /\ UNCHANGED <<pc, body, result>>
    /\ UNCHANGED <<store, admin, calls, parked, gateways, credentials, lookupTenant, cnamData, cnamReply, tenant,
                   matchedExtension, caught>>

\* getTenantByDomain resolves; directoryController.lookup runs to its end
DirectoryTenantReturns ==
    /\ pc = "directoryTenantRead"
    /\ lookupTenant' = getTenantByDomain(store, body["domain"])
    /\ result' = Answer(DirectoryLookup(body, lookupTenant'))
    /\ pc' = "done"
    /\ UNCHANGED <<store, admin, calls, parked, gateways, credentials, response, body, cnamData, cnamReply, tenant,
                   matchedExtension, caught>>

\* the store read of getTenantByDomain fails; nothing in lookup catches it
DirectoryTenantThrows ==
    /\ pc = "directoryTenantRead"
    /\ result' = Escapes
    /\ caught' = "getTenantByDomain"
    /\ pc' = "done"
    /\ UNCHANGED <<store, admin, calls, parked, gateways, credentials, response, body, lookupTenant, cnamData,
                   cnamReply, tenant, matchedExtension>>

\* Tenant.findOne of findSipClient resolves; findSipClient throws when there is
\* no tenant, else voicemailController.lookup runs to its end
FindSipClientReturns ==
    /\ pc = "findSipClient"
    /\ IF FindSipClientThrows(store, body["domain"])
       THEN result' = Escapes /\ caught' = "findSipClient"
       ELSE /\ result' = Answer(VoicemailLookup(body,
                                    findSipClient(store, body["domain"], body["user"])))
            /\ UNCHANGED caught
    /\ pc' = "done"
    /\ UNCHANGED <<store, admin, calls, parked, gateways, credentials, response, body, lookupTenant, cnamData,
                   cnamReply, tenant, matchedExtension>>

\* the store read of findSipClient fails; it rethrows
FindSipClientReadThrows ==
    /\ pc = "findSipClient"
    /\ result' = Escapes
    /\ caught' = "Tenant.findOne"
    /\ pc' = "done"
    /\ UNCHANGED <<store, admin, calls, parked, gateways, credentials, response, body, lookupTenant, cnamData,
                   cnamReply, tenant, matchedExtension>>

\* a resolver that takes the first record out of the pool as it reads it
ConfigurationReadDrains ==
    /\ pc = "configurationRead"
    /\ result' = Answer(SofiaConf(gateways))
    /\ gateways' = IF gateways = <<>> THEN gateways ELSE Tail(gateways)
    /\ pc' = "done"
    /\ UNCHANGED <<store, admin, calls, parked, credentials, response, body, lookupTenant, cnamData,
                   cnamReply, tenant, matchedExtension, caught>>

\* getAllExternalGateways resolves; configurationController.lookup runs to its end
ConfigurationReadReturns ==
    /\ pc = "configurationRead"
    /\ result' = Answer(SofiaConf(gateways))
    /\ pc' = "done"
    /\ UNCHANGED <<store, admin, calls, parked, gateways, credentials, response, body, lookupTenant, cnamData,
                   cnamReply, tenant, matchedExtension, caught>>

\* the pool read fails; the catch block of configurationController.lookup answers
ConfigurationReadThrows ==
    /\ pc = "configurationRead"
    /\ result' = Answer(ConfigurationError)
    /\ caught' = "getAllExternalGateways"
    /\ pc' = "done"
    /\ UNCHANGED <<store, admin, calls, parked, gateways, credentials, response, body, lookupTenant, cnamData,
                   cnamReply, tenant, matchedExtension>>

\* the controller is back: res.send(xmlResponse), or the catch block of
\* router.post when the controller threw (lines 49-55)
Respond ==
    /\ pc = "done"
    /\ response' = IF result.raised
                   THEN Sent(body, 500, <<"Internal Server Error">>, caught)
                   ELSE Sent(body, 200, result.doc, caught)
    /\ pc' = "idle"
    /\ body' = NoBody
    /\ lookupTenant' = NullTenant
    /\ cnamData' = NullCnam
    /\ cnamReply' = NoReply
    /\ matchedExtension' = NullExt
    /\ caught' = "none"
    /\ result' = Answer(<<>>)
    /\ UNCHANGED <<store, admin, calls, parked, gateways, credentials, tenant>>

XmlCurlNext ==
    \/ \E req \in XmlCurlBodies : Post(req)
    \/ DirectoryTenantReturns
    \/ DirectoryTenantThrows
    \/ FindSipClientReturns
    \/ FindSipClientReadThrows
    \/ ConfigurationReadReturns
    \/ ConfigurationReadThrows
    \/ TenantReadReturns
    \/ TenantReadThrows
    \/ CnamRejects
    \/ \E reply \in CnamReplies : CnamReturns(reply)
    \/ DidReadReturns
    \/ DidReadThrows
    \/ GatewayReadReturns
    \/ GatewayReadThrows
    \/ Respond

XmlCurlSpec == XmlCurlInit /\ [][XmlCurlNext]_vars

\* ------------------------------------------------------------------------
\* Claims about the directory resolver (under XmlCurlSpec)
\* ------------------------------------------------------------------------

\* directoryController.lookup has returned a document for the request in progress
DirectoryAnswered ==
    /\ pc = "done"
    /\ body["section"] = <<"directory">>
    /\ body["action"] # <<"voicemail-lookup">>
    /\ ~result.raised

\* the tenant the request in progress names, as stored
RequestedTenant == getTenantByDomain(store, body["domain"])

\* id is the user id of a SIP client of t
IsSipClientId(t, id) == \E i \in 1..Len(t.sip_clients) : t.sip_clients[i].user_id = id

\* id is the voicemail box of a voicemail-enabled group of t
IsGroupVoicemailBox(t, id) ==
    \E i \in 1..Len(t.groups) :
        t.groups[i].enable_voicemail /\ t.groups[i].voicemail_box_id = id

\* DID did fails over to a voicemail box, voicemail_<id>
FailsOverToVoicemail(did) ==
    /\ did.failover_routing_type = <<"dialplan_extension">>
    /\ Truthy(did.failover_routing_target)
    /\ StartsWith(did.failover_routing_target, <<"voicemail_">>)

\* the DIDs of t whose voicemail box id names: by DID number, or by mailbox id
DidVoicemailBoxes(t, id) ==
    {i \in 1..Len(t.dids) :
        /\ FailsOverToVoicemail(t.dids[i])
        /\ (t.dids[i].did_number = id \/ vmBoxIdFromDid(t.dids[i]) = id)}

\* the request in progress matches nothing the directory knows
DirectoryUnknown ==
    \/ DirectoryReturnsEarly(body)
    \/ IsNullTenant(RequestedTenant)
    \/ /\ ~IsSipClientId(RequestedTenant, DirectoryUserNumber(body))
       /\ ~IsGroupVoicemailBox(RequestedTenant, DirectoryUserNumber(body))
       /\ DidVoicemailBoxes(RequestedTenant, DirectoryUserNumber(body)) = {}

\* doc is the empty document: a document element and nothing in it
IsEmptyDocument(doc) ==
    Len(Elements(doc)) = 1 /\ Elements(doc)[1].tag = "document"

\* C15: a directory lookup returns the empty document when the domain or the
\* user id is missing, the tenant does not exist, or the id is no SIP client, no
\* group voicemail box and no DID voicemail box of the tenant; otherwise it
\* returns a document with exactly one user element
C15_DirectoryOutcome ==
    DirectoryAnswered =>
        IF DirectoryUnknown
        THEN IsEmptyDocument(result.doc)
        ELSE Len(ElementsOf(result.doc, "user")) = 1

\* the value of the param element of doc named name, Undef when doc has none
ParamOf(doc, name) ==
    LET ps == SelectSeq(ElementsOf(doc, "param"), LAMBDA e : Attr(e, " name=") = name)
    IN  IF ps = <<>> THEN Undef ELSE Attr(ps[1], " value=")

\* doc holds one user element, a voicemail-only pseudo-user for a mailbox of boxes
IsPseudoUser(doc, boxes) ==
    LET us == ElementsOf(doc, "user")
    IN  /\ Len(us) = 1
        /\ ParamOf(doc, <<"password">>) = <<"NO_SIP_AUTH">>
        /\ Attr(us[1], " mailbox=") \in boxes

\* doc holds one user element, a SIP client with its own password
IsClientUser(doc, id) ==
    LET us == ElementsOf(doc, "user")
    IN  /\ Len(us) = 1
        /\ Attr(us[1], " id=") = id
        /\ Attr(us[1], " mailbox=") = Undef
        /\ ParamOf(doc, <<"password">>) # <<"NO_SIP_AUTH">>

\* C16: directory resolution tries the SIP client, then the group voicemail
\* box, then the DID voicemail box; the DID step matches a DID failing over to
\* voicemail_<id> when the DID number or <id> is the requested id, and emits a
\* pseudo-user with password NO_SIP_AUTH and mailbox <id>
C16_DirectoryPrecedence ==
    (DirectoryAnswered /\ ~DirectoryReturnsEarly(body) /\ ~IsNullTenant(RequestedTenant)) =>
        LET t == RequestedTenant
            id == DirectoryUserNumber(body)
        IN  IF IsSipClientId(t, id) THEN IsClientUser(result.doc, id)
            ELSE IF IsGroupVoicemailBox(t, id) THEN IsPseudoUser(result.doc, {id})
            ELSE IF DidVoicemailBoxes(t, id) # {}
            THEN IsPseudoUser(result.doc,
                              {vmBoxIdFromDid(t.dids[i]) : i \in DidVoicemailBoxes(t, id)})
            ELSE TRUE

\* ------------------------------------------------------------------------
\* Claims about the configuration resolver (under XmlCurlSpec)
\* ------------------------------------------------------------------------

\* configurationController.lookup has answered a request for the SIP-profile key
SofiaConfAnswered ==
    /\ pc = "done"
    /\ body["section"] = <<"configuration">>
    /\ body["key_value"] = <<"sofia.conf">>

\* the names of the elements of doc with tag t, in document order
NamesOf(doc, t) ==
    LET es == ElementsOf(doc, t) IN [i \in 1..Len(es) |-> Attr(es[i], " name=")]

\* the names of the records of a gateway pool, in pool order
PoolNames(pool) == [i \in 1..Len(pool) |-> pool[i].name]

\* C17: for the SIP-profile key the configuration resolver emits exactly two
\* profiles for every gateway pool and every store outcome: the internal
\* profile, and one external profile whose name does not depend on the pool and
\* whose gateway list holds one gateway element per pool record, in pool order
C17_TwoProfiles ==
    SofiaConfAnswered =>
        LET names == NamesOf(result.doc, "profile")
        IN  /\ Len(names) = 2
            /\ names[1] = <<"internal">>
            /\ \A pool \in GatewayPools :
                    LET others == NamesOf(SofiaConf(pool), "profile")
                    IN  Len(others) >= 2 /\ others[2] = names[2]
            /\ NamesOf(result.doc, "gateway") = PoolNames(gateways)

\* configurationController.lookup has answered from the pool (or without
\* needing it), and so had the call before it, for the same request
SecondConfigurationCall ==
    /\ pc = "done"
    /\ body["section"] = <<"configuration">>
    /\ caught = "none"
    /\ response.request = body
    /\ response.status = 200
    /\ response.caught = "none"

RecognizedSections == {<<"directory">>, <<"dialplan">>, <<"configuration">>}

\* the last exchange ended because a read of the store failed
StoreFailed == response.caught \in {"getTenantByDomain", "Tenant.findOne"}

\* text is an XML body: it holds a document element
IsXmlBody(text) == Len(ElementsOf(text, "document")) = 1

\* C19: the endpoint answers 400 when section is missing, 404 when section is
\* not directory, dialplan or configuration, and 200 with an XML body for every
\* request with a recognized section whose store reads do not fail, a lookup
\* ending in an empty document or an error document included
C19_StatusCodes ==
    (response.status # 0 /\ ~StoreFailed) =>
        IF ~Truthy(response.request["section"]) THEN response.status = 400
        ELSE IF response.request["section"] \notin RecognizedSections
        THEN response.status = 404
        ELSE response.status = 200 /\ IsXmlBody(response.body)

\* ------------------------------------------------------------------------
\* services/tenantService.js: deleteSipClient and deleteGroup, one call at a
\* time, cut at their awaits
\* ------------------------------------------------------------------------

\* a DID stored with the fields of the Tenant model as well as those the
\* resolvers read
ModelDid(number, type, target) ==
    [Did(number, TRUE, type, target, Undef, Undef)
        EXCEPT !.routing_target_type = type, !.routing_target_id = target]

\* the tenants collection the deletes are run against
AdminTenants ==
    <<[TenantA EXCEPT !.dids = @ \o <<ModelDid(E164(National("0")), <<"extension">>, U1002),
                                      ModelDid(E164(DialedPstn), <<"group">>, Ring)>>],
      TenantB>>

AdminDomains == {DomA, DomB, DomC}
AdminUserIds == {U1001, U1002, U1003, U2001, Box999}
AdminGroupNames == {Sales, Ring, <<"g", "h", "o", "s", "t">>}

AdminInit ==
    /\ store = AdminTenants
    /\ gateways = <<>>
    /\ credentials = TRUE
    /\ pc = "idle"
    /\ body = NoBody
    /\ lookupTenant = NullTenant
    /\ cnamData = NullCnam
    /\ cnamReply = NoReply
    /\ tenant = NullTenant
    /\ matchedExtension = NullExt
    /\ caught = "none"
    /\ result = Answer(<<>>)
    /\ response = NoResponse
    /\ admin = NoAdmin
    /\ calls = NoCalls
    /\ parked = NoLookup

\* the variables no delete touches
lookupVars ==
    <<gateways, credentials, pc, body, lookupTenant, cnamData, cnamReply, tenant,
      matchedExtension, caught, result, response, calls, parked>>

\* the body of tenant.dids.forEach in both deletes
UnassignDid(did, type, id, description) ==
    IF did.routing_target_type = type /\ did.routing_target_id = id
    THEN [did EXCEPT !.routing_target_type = <<"custom">>,
                     !.routing_target_id = <<"unassigned">>,
                     !.description = description \o id]
    ELSE did

\* the tenant document deleteSipClient saves (lines 197-213)
WithoutSipClient(t, userId) ==
    [t EXCEPT
        !.sip_clients = SelectSeq(@, LAMBDA client : client.user_id # userId),
        !.groups = [i \in 1..Len(@) |->
                        [@[i] EXCEPT !.members =
                            SelectSeq(@, LAMBDA member : member.user_id # userId)]],
        !.dids = [i \in 1..Len(@) |->
                        UnassignDid(@[i], <<"extension">>, userId,
                                    <<"Previously assigned to deleted extension ">>)]]

\* the tenant document deleteGroup saves (lines 445-457)
WithoutGroup(t, groupName) ==
    [t EXCEPT
        !.groups = SelectSeq(@, LAMBDA g : g.name # groupName),
        !.dids = [i \in 1..Len(@) |->
                        UnassignDid(@[i], <<"group">>, groupName,
                                    <<"Previously assigned to deleted group ">>)]]

\* the document the delete in progress would save, given the tenant it read
AfterDelete(t) ==
    IF admin.op = "deleteSipClient" THEN WithoutSipClient(t, admin.id)
    ELSE WithoutGroup(t, admin.id)

\* the delete in progress found nothing to delete in t (lines 199-201, 447-449)
NothingDeleted(t) ==
    IF admin.op = "deleteSipClient"
    THEN Len(AfterDelete(t).sip_clients) = Len(t.sip_clients)
    ELSE Len(AfterDelete(t).groups) = Len(t.groups)

\* the collection after tenant.save() of document doc
Saved(tenants, doc) ==
    [i \in 1..Len(tenants) |->
        IF tenants[i].domain_name = doc.domain_name THEN doc ELSE tenants[i]]

\* deleteSipClient(domainName, userId) is called and awaits Tenant.findOne
DeleteSipClientCalled(domainName, userId) ==
    /\ admin.step \in {"idle", "returned"}
    /\ admin' = [admin EXCEPT !.op = "deleteSipClient", !.domainName = domainName,
                              !.id = userId, !.step = "findOne", !.doc = NullTenant,
                              !.outcome = "none"]
    /\ UNCHANGED <<store, lookupVars>>

\* deleteGroup(domainName, groupName) is called and awaits Tenant.findOne
DeleteGroupCalled(domainName, groupName) ==
    /\ admin.step \in {"idle", "returned"}
    /\ admin' = [admin EXCEPT !.op = "deleteGroup", !.domainName = domainName,
                              !.id = groupName, !.step = "findOne", !.doc = NullTenant,
                              !.outcome = "none"]
    /\ UNCHANGED <<store, lookupVars>>

\* Tenant.findOne resolves; the delete throws, or edits the document and
\* awaits tenant.save()
AdminFindOneReturns ==
    /\ admin.step = "findOne"
    /\ LET t == FindOne(store, LAMBDA d : d.domain_name = admin.domainName)
       IN  IF IsNullTenant(t)
           THEN admin' = [admin EXCEPT !.step = "returned",
                                       !.outcome = "Tenant not found"]
           ELSE IF NothingDeleted(t)
           THEN admin' = [admin EXCEPT !.step = "returned", !.outcome = "not found"]
           ELSE admin' = [admin EXCEPT !.step = "save", !.doc = AfterDelete(t)]
    /\ UNCHANGED <<store, lookupVars>>

\* Tenant.findOne rejects; the delete rethrows
AdminFindOneThrows ==
    /\ admin.step = "findOne"
    /\ admin' = [admin EXCEPT !.step = "returned", !.outcome = "read error"]
    /\ UNCHANGED <<store, lookupVars>>

\* tenant.save() resolves; the delete returns true
AdminSaveReturns ==
    /\ admin.step = "save"
    /\ store' = Saved(store, admin.doc)
    /\ admin' = [admin EXCEPT
                    !.step = "returned", !.outcome = "true", !.doc = NullTenant,
                    !.deleted = @ \cup {<<admin.op, admin.domainName, admin.id>>}]
    /\ UNCHANGED lookupVars

\* tenant.save() rejects; the delete rethrows and the collection is as it was
AdminSaveThrows ==
    /\ admin.step = "save"
    /\ admin' = [admin EXCEPT !.step = "returned", !.outcome = "save error",
                              !.doc = NullTenant]
    /\ UNCHANGED <<store, lookupVars>>

AdminNext ==
    \/ \E d \in AdminDomains, u \in AdminUserIds : DeleteSipClientCalled(d, u)
    \/ \E d \in AdminDomains, g \in AdminGroupNames : DeleteGroupCalled(d, g)
    \/ AdminFindOneReturns
    \/ AdminFindOneThrows
    \/ AdminSaveReturns
    \/ AdminSaveThrows

AdminSpec == AdminInit /\ [][AdminNext]_vars

\* ------------------------------------------------------------------------
\* Claims about the admin deletes (under AdminSpec)
\* ------------------------------------------------------------------------

\* the target of a DID as handleInboundCall reads it
ResolverTarget(did) == [type |-> did.routing_type, target |-> did.routing_target]

\* some DID of t routes to target of type type, as the resolver reads it
SomeDidRoutesTo(t, type, target) ==
    \E i \in 1..Len(t.dids) : ResolverTarget(t.dids[i]) = [type |-> type, target |-> target]

\* some group of t lists userId as a member
SomeGroupLists(t, userId) ==
    \E i \in 1..Len(t.groups) :
        \E j \in 1..Len(t.groups[i].members) : t.groups[i].members[j].user_id = userId

\* C20: once deleteSipClient(domain, u) has succeeded no group of the tenant
\* lists u and no DID of the tenant routes to extension u; once
\* deleteGroup(domain, g) has succeeded no DID of the tenant routes to group g;
\* so no sequence of deletes leaves a DID, as the dialplan resolver reads it,
\* pointing at a deleted client or group
C20_NoDanglingDid ==
    \A i \in 1..Len(store) :
        \A del \in admin.deleted :
            del[2] = store[i].domain_name =>
                IF del[1] = "deleteSipClient"
                THEN /\ ~SomeGroupLists(store[i], del[3])
                     /\ ~SomeDidRoutesTo(store[i], <<"extension">>, del[3])
                ELSE ~SomeDidRoutesTo(store[i], <<"group">>, del[3])

\* ------------------------------------------------------------------------
\* tenantService adds, updates and deletes on one tenant, by several callers,
\* each cut at its awaits (Tenant.findOne and tenant.save)
\* ------------------------------------------------------------------------

MaxCallers == 2
MaxItems == 2

Collections == {"sip_clients", "groups", "dialplan", "dids"}

\* x[f], undefined when x has no property f
Field(x, f) == IF f \in DOMAIN x THEN x[f] ELSE Undef

\* tenant.sip_clients, tenant.groups, tenant.dialplan.default or tenant.dids
Items(t, c) == IF c = "dialplan" THEN t.dialplan.default ELSE t[c]

\* the tenant document with that array replaced
WithItems(t, c, items) ==
    IF c = "dialplan" THEN [t EXCEPT !.dialplan.default = items] ELSE [t EXCEPT ![c] = items]

\* the property the find of each update compares with its argument
\* (lines 172, 309, 421, 542)
UpdateKey(c) ==
    CASE c = "sip_clients" -> "user_id"
      [] c = "dids" -> "did_number"
      [] OTHER -> "name"

\* the property the duplicate test of each add and the filter of each delete
\* read (lines 145, 282, 394, 515; 198, 334, 446, 569)
AddKey(c) ==
    CASE c = "sip_clients" -> "user_id"
      [] c = "dids" -> "number"
      [] OTHER -> "name"

\* Object.assign(target, source)
ObjectAssign(target, source) ==
    [f \in DOMAIN target \cup DOMAIN source |->
        IF f \in DOMAIN source THEN source[f] ELSE target[f]]

\* a DID document carrying the number under both names the service reads
CrudDid(number, target) ==
    ObjectAssign(Did(number, TRUE, <<"extension">>, target, Undef, Undef),
                 [number |-> number])

\* the identifiers the callers use, per collection
CrudKeys(c) ==
    CASE c = "sip_clients" -> <<U2001, U1001>>
      [] c = "groups" -> <<Sales, Ring>>
      [] c = "dialplan" -> <<<<"broken">>, <<"star">>>>
      [] OTHER -> <<E164(National("9")), E164(National("1"))>>

\* the document a caller posts to add identifier key to collection c
NewItem(c, key) ==
    CASE c = "sip_clients" -> SipClient(key, <<>>, FALSE)
      [] c = "groups" -> Group(key, <<"ring">>, <<>>, <<>>, FALSE, Undef, Act(Undef, Undef))
      [] c = "dialplan" -> Entry(key, <<"destination_number">>, <<"^", "9", "$">>,
                                 <<Act(<<"hangup">>, <<>>)>>)
      [] OTHER -> CrudDid(key, U2001)

\* the tenant the callers work on: one document in each collection
CrudTenant ==
    [TenantB EXCEPT
        !.sip_clients = <<NewItem("sip_clients", U2001)>>,
        !.groups = <<NewItem("groups", Sales)>>,
        !.dids = <<NewItem("dids", E164(National("9")))>>]

IdleCall ==
    [op |-> "none", collection |-> "none", domainName |-> Undef, id |-> Undef,
     data |-> <<>>, step |-> "idle", doc |-> NullTenant, outcome |-> "none"]

CrudInit ==
    /\ store = <<CrudTenant>>
    /\ gateways = <<>>
    /\ credentials = TRUE
    /\ pc = "idle"
    /\ body = NoBody
    /\ lookupTenant = NullTenant
    /\ cnamData = NullCnam
    /\ cnamReply = NoReply
    /\ tenant = NullTenant
    /\ matchedExtension = NullExt
    /\ caught = "none"
    /\ result = Answer(<<>>)
    /\ response = NoResponse
    /\ admin = NoAdmin
    /\ calls = [p \in 1..MaxCallers |-> IdleCall]
    /\ parked = NoLookup

\* the variables no add, update or delete touches
crudVars ==
    <<gateways, credentials, pc, body, lookupTenant, cnamData, cnamReply, tenant,
      matchedExtension, caught, result, response, admin, parked>>

\* the tenant document an add saves, or the error it throws
\* (lines 145-150, 282-287, 394-399, 515-520)
Added(t, c, data) ==
    IF \E i \in 1..Len(Items(t, c)) :
            Field(Items(t, c)[i], AddKey(c)) = Field(data, AddKey(c))
    THEN [threw |-> TRUE, error |-> "already exists", doc |-> NullTenant]
    ELSE [threw |-> FALSE, error |-> "none",
          doc |-> WithItems(t, c, Append(Items(t, c), data))]

\* the tenant document an update saves, or the error it throws
\* (lines 172-175, 309-312, 421-424, 541-547)
Updated(t, c, id, updateData) ==
    LET index == FindIndex(Items(t, c), LAMBDA x : Field(x, UpdateKey(c)) = id)
    IN  IF index = 0
        THEN [threw |-> TRUE, error |-> "not found", doc |-> NullTenant]
        ELSE [threw |-> FALSE, error |-> "none",
              doc |-> WithItems(t, c, [Items(t, c) EXCEPT
                                          ![index] = ObjectAssign(@, updateData)])]

\* the tenant document a delete saves, or the error it throws
\* (lines 197-213, 333-337, 445-457, 568-572)
Removed(t, c, id) ==
    LET doc == CASE c = "sip_clients" -> WithoutSipClient(t, id)
                 [] c = "groups" -> WithoutGroup(t, id)
                 [] OTHER -> WithItems(t, c, SelectSeq(Items(t, c),
                                            LAMBDA x : Field(x, AddKey(c)) # id))
    IN  IF Len(Items(doc, c)) = Len(Items(t, c))
        THEN [threw |-> TRUE, error |-> "not found for deletion", doc |-> NullTenant]
        ELSE [threw |-> FALSE, error |-> "none", doc |-> doc]

\* bound: the callers of one behaviour work on one collection of the tenant
SameCollection(c) == \A q \in 1..MaxCallers : calls[q].collection \in {"none", c}

\* the call of caller p returns or throws: its arguments and its document
\* go out of scope
CallEnds(p, outcome) ==
    [calls EXCEPT ![p] = [IdleCall EXCEPT !.op = calls[p].op,
                                          !.collection = calls[p].collection,
                                          !.step = "returned", !.outcome = outcome]]

\* caller p calls an add of collection c and awaits Tenant.findOne
AddCalled(p, c, domainName, data) ==
    /\ calls[p].step \in {"idle", "returned"}
    /\ SameCollection(c)
    /\ calls' = [calls EXCEPT ![p] =
                    [IdleCall EXCEPT !.op = "add", !.collection = c,
                                     !.domainName = domainName, !.data = data,
                                     !.step = "findOne"]]
    /\ UNCHANGED <<store, crudVars>>

\* caller p calls an update of collection c and awaits Tenant.findOne
UpdateCalled(p, c, domainName, id, updateData) ==
    /\ calls[p].step \in {"idle", "returned"}
    /\ SameCollection(c)
    /\ calls' = [calls EXCEPT ![p] =
                    [IdleCall EXCEPT !.op = "update", !.collection = c,
                                     !.domainName = domainName, !.id = id,
                                     !.data = updateData, !.step = "findOne"]]
    /\ UNCHANGED <<store, crudVars>>

\* caller p calls a delete of collection c and awaits Tenant.findOne
DeleteCalled(p, c, domainName, id) ==
    /\ calls[p].step \in {"idle", "returned"}
    /\ SameCollection(c)
    /\ calls' = [calls EXCEPT ![p] =
                    [IdleCall EXCEPT !.op = "delete", !.collection = c,
                                     !.domainName = domainName, !.id = id,
                                     !.step = "findOne"]]
    /\ UNCHANGED <<store, crudVars>>

\* Tenant.findOne resolves for caller p; the call throws, or edits the
\* document it read and awaits tenant.save() (bound: an add reads at most
\* MaxItems documents in its collection)
CallFindOneReturns(p) ==
    /\ calls[p].step = "findOne"
    /\ calls[p].op = "add" =>
            \A i \in 1..Len(store) : Len(Items(store[i], calls[p].collection)) <= MaxItems
    /\ LET call == calls[p]
           t == FindOne(store, LAMBDA d : d.domain_name = call.domainName)
           r == CASE call.op = "add" -> Added(t, call.collection, call.data)
                  [] call.op = "update" ->
                        Updated(t, call.collection, call.id, call.data)
                  [] OTHER -> Removed(t, call.collection, call.id)
       IN  IF IsNullTenant(t)
           THEN calls' = CallEnds(p, "Tenant not found")
           ELSE IF r.threw
           THEN calls' = CallEnds(p, r.error)
           ELSE calls' = [calls EXCEPT ![p].step = "save", ![p].doc = r.doc]
    /\ UNCHANGED <<store, crudVars>>

\* Tenant.findOne rejects for caller p; the call rethrows
CallFindOneThrows(p) ==
    /\ calls[p].step = "findOne"
    /\ calls' = CallEnds(p, "read error")
    /\ UNCHANGED <<store, crudVars>>

\* tenant.save() resolves for caller p; the call returns
CallSaveReturns(p) ==
    /\ calls[p].step = "save"
    /\ store' = Saved(store, calls[p].doc)
    /\ calls' = CallEnds(p, "saved")
    /\ UNCHANGED crudVars

\* tenant.save() rejects for caller p; the call rethrows
CallSaveThrows(p) ==
    /\ calls[p].step = "save"
    /\ calls' = CallEnds(p, "save error")
    /\ UNCHANGED <<store, crudVars>>

CrudNext ==
    \E p \in 1..MaxCallers :
        \/ \E c \in Collections, k \in {1, 2} :
                AddCalled(p, c, DomB, NewItem(c, CrudKeys(c)[k]))
        \/ \E c \in Collections : AddCalled(p, c, DomC, NewItem(c, CrudKeys(c)[2]))
        \/ \E c \in Collections :
                UpdateCalled(p, c, DomB, CrudKeys(c)[1],
                             [x \in {UpdateKey(c)} |-> CrudKeys(c)[2]])
        \/ \E c \in Collections : DeleteCalled(p, c, DomB, CrudKeys(c)[2])
        \/ CallFindOneReturns(p)
        \/ CallFindOneThrows(p)
        \/ CallSaveReturns(p)
        \/ CallSaveThrows(p)

CrudSpec == CrudInit /\ [][CrudNext]_vars

\* the values of property f over the documents of collection c of t
KeysOf(t, c, f) == [i \in 1..Len(Items(t, c)) |-> Field(Items(t, c)[i], f)]

\* no two documents of collection c of t carry the same value of property f
UniqueIn(t, c, f) ==
    \A i, j \in 1..Len(Items(t, c)) :
        i # j => KeysOf(t, c, f)[i] # KeysOf(t, c, f)[j]

\* C21: in every state reachable by any sequence and interleaving of adds,
\* updates and deletes on one tenant, SIP client user_id, group name, DID
\* did_number and dialplan extension name are each unique within the tenant
C21_UniqueWithinTenant ==
    \A i \in 1..Len(store) :
        \A c \in Collections : UniqueIn(store[i], c, UpdateKey(c))

\* ------------------------------------------------------------------------
\* C22
\* ------------------------------------------------------------------------

\* C22: in the default context the handlers run in the order inter-domain
\* guard, outbound PSTN, local dispatch, no-match fallback, each only when all
\* earlier ones produced no program: a destination matching the PSTN pattern
\* with a non-empty gateway pool gets the outbound program even when it is a
\* group name or SIP client id of the tenant, and with an empty pool the same
\* destination is handed to local dispatch
C22_HandlerOrder ==
    (Done /\ caught = "none" /\ InDefault /\ ~IsNullTenant(lookupTenant)) =>
        LET d == EffectiveDestination(body)
            local == handleLocalCall(body, lookupTenant, LookupDomain(body), d)
        IN  IF InterDomain(body)
            THEN matchedExtension = BlockInterdomainCall(body)
            ELSE IF MatchesPstn(d) /\ gateways # <<>>
            THEN /\ matchedExtension.name = <<"outbound_pstn_">> \o LastTen(d)
                 /\ DocActions(result.doc) = TrunkActions(d)
            ELSE /\ ~local.threw
                 /\ matchedExtension = IF IsNullExt(local.ext) THEN getNoMatchFallback(d)
                                       ELSE local.ext

\* a destination that is a SIP client id of the tenant and matches the PSTN
\* pattern went to the trunk, the pool being non-empty
C22_Witness ==
    /\ Done /\ caught = "none" /\ InDefault /\ ~InterDomain(body)
    /\ gateways # <<>>
    /\ ~IsNullTenant(lookupTenant)
    /\ ClientsMatching(lookupTenant, EffectiveDestination(body)) # {}
    /\ MatchesPstn(EffectiveDestination(body))
    /\ matchedExtension.name = <<"outbound_pstn_">> \o LastTen(EffectiveDestination(body))

\* ------------------------------------------------------------------------
\* C23
\* ------------------------------------------------------------------------

\* the positions of the routing actions (bridge or transfer) of a program
RoutingPositions(actions) ==
    {i \in 1..Len(actions) : actions[i].application \in {<<"bridge">>, <<"transfer">>}}

\* what follows the first routing action of a program, log lines left out
AfterRouting(actions) ==
    SelectSeq(SubSeq(actions, Least(RoutingPositions(actions)) + 1, Len(actions)),
              LAMBDA a : a.application # <<"log">>)

\* the DID handleInboundCall matches for the request in progress (lines 152-164)
InboundMatchedDid ==
    LET t == getTenantAndDidByDidNumber(store, ActualDidFromTrunk(body))
        hint == String(ActualDidFromTrunk(body))
        number == IF IsTenDigits(hint) THEN <<"+", "1">> \o hint ELSE hint
    IN  t.dids[FindIndex(t.dids, LAMBDA did : did.did_number = number)]

\* an inbound-DID lookup ended with a program that holds a routing action
InboundRouted ==
    /\ Done /\ caught = "none" /\ InboundDid
    /\ RoutingPositions(DocActions(result.doc)) # {}

\* C23: every inbound-DID program that holds a routing action (bridge or
\* transfer) continues with exactly one failover block and ends with hangup:
\* answer, sleep, voicemail "default <domain> <box>", hangup when
\* failover_routing_type is dialplan_extension and the target begins with
\* voicemail_, and answer, playback, hangup in every other case, a
\* dialplan_extension failover with another target included
C23_FailoverBlock ==
    InboundRouted =>
        LET did == InboundMatchedDid
            t == getTenantAndDidByDidNumber(store, ActualDidFromTrunk(body))
            block == AfterRouting(DocActions(result.doc))
        IN  IF /\ did.failover_routing_type = <<"dialplan_extension">>
               /\ Truthy(did.failover_routing_target)
               /\ StartsWith(did.failover_routing_target, <<"voicemail_">>)
            THEN block = <<Act(<<"answer">>, <<>>),
                           Act(<<"sleep">>, <<"1", "0", "0", "0">>),
                           Act(<<"voicemail">>,
                               <<"default", " ">> \o t.domain_name \o <<" ">>
                               \o Tail(did.failover_routing_target)),
                           Act(<<"hangup">>, <<>>)>>
            ELSE block = AnnounceAndHangup

\* ------------------------------------------------------------------------
\* C24
\* ------------------------------------------------------------------------

\* the data of the bridge actions of a program
BridgeData(actions) ==
    LET bridges == SelectSeq(actions, LAMBDA a : a.application = <<"bridge">>)
    IN  [i \in 1..Len(bridges) |-> DataOf(bridges[i])]

\* the group of tenant t an inbound DID routes to
InboundGroup(t, did) ==
    t.groups[FindIndex(t.groups, LAMBDA group : group.name = did.routing_target)]

\* C24: for the same group and tenant, the bridge data emitted when an inbound
\* DID routes to the group equals the bridge data emitted when a local call
\* dials the group by name: same optional timeout prefix, same member order,
\* same separator
C24_SameBridgeData ==
    (InboundRouted /\ InboundMatchedDid.routing_type = <<"group">>) =>
        LET t == getTenantAndDidByDidNumber(store, ActualDidFromTrunk(body))
            g == InboundGroup(t, InboundMatchedDid)
        IN  BridgeData(DocActions(result.doc))
            = BridgeData(LocalRule2(<<>>, t, g, g.name).actions)

\* ------------------------------------------------------------------------
\* C25
\* ------------------------------------------------------------------------

\* Rule 2 of local dispatch built the answer of the lookup in progress
GroupDispatched ==
    /\ LocalDispatched
    /\ Least(RulesSatisfied(lookupTenant, EffectiveDestination(body))) = 2

\* the group Rule 2 matched for the lookup in progress
DialledGroup ==
    lookupTenant.groups[Least(GroupsNamed(lookupTenant, EffectiveDestination(body)))]

\* the failure block of a group whose voicemail box is used
GroupVoicemailBlock(domain, g) ==
    <<Act(<<"answer">>, <<>>),
      Act(<<"sleep">>, <<"1", "0", "0", "0">>),
      Act(<<"voicemail">>, <<"default", " ">> \o domain \o <<" ">> \o g.voicemail_box_id),
      Act(<<"hangup">>, <<>>)>>

NullAct == [isNull |-> TRUE]

\* an element of actions that is no object (a number, a string)
PrimitiveAct == [primitive |-> TRUE]

\* Array.isArray(extensionObject.actions): a program without the property
\* actions has none
ActionsIsArray(extensionObject) == "actions" \in DOMAIN extensionObject

\* the condition of the "Defensive check" (line 18)
EmitterInvalid(extensionObject) ==
    \/ IsNullExt(extensionObject)
    \/ ~Truthy(extensionObject.name)
    \/ ~Truthy(extensionObject.condition_field)
    \/ ~Truthy(extensionObject.expression)
    \/ ~ActionsIsArray(extensionObject)

\* action.application of the forEach callback throws a TypeError (line 33)
ActionThrows(action) == "isNull" \in DOMAIN action

\* what the forEach callback reads of an element: its application and data
ActionRead(action) == Act(Field(action, "application"), Field(action, "data"))

\* generateDialplanXml(contextName, extensionObject, rawBody): the document
\* it returns, or the exception that leaves it (lines 13-41)
DialplanXmlOutcome(contextName, extensionObject, rawBody) ==
    LET e == IF EmitterInvalid(extensionObject) THEN XmlFallbackExtension(rawBody)
             ELSE extensionObject
    IN  IF \E i \in 1..Len(e.actions) : ActionThrows(e.actions[i])
        THEN Escapes
        ELSE Answer(generateDialplanXml(
                        contextName,
                        [e EXCEPT !.actions = [i \in 1..Len(@) |-> ActionRead(@[i])]],
                        rawBody))

\* the actions arrays handed to the emitter
EmitterActionLists ==
    {<<>>,
     <<Act(<<"bridge">>, <<"user/1001@a.ex">>)>>,
     <<Act(<<"answer">>, Undef), Act(<<"hangup">>, <<>>)>>,
     <<NullAct>>,
     <<Act(<<"answer">>, Undef), NullAct>>,
     <<PrimitiveAct>>,
     <<Act(<<"answer">>, Undef), PrimitiveAct, Act(<<"hangup">>, <<>>)>>}

\* the extension programs handed to the emitter: null, with and without a
\* name, a condition field, an expression and an actions array
EmitterPrograms ==
    {NullExt}
    \cup {Ext(n, f, x, as) :
            n \in {Undef, <<>>, <<"local">>},
            f \in {Undef, <<"destination_number">>},
            x \in {Undef, <<"^", "1", "0", "0", "1", "$">>},
            as \in EmitterActionLists}
    \cup {[name |-> n, condition_field |-> <<"destination_number">>,
           expression |-> <<"^", "1", "0", "0", "1", "$">>] : n \in {Undef, <<"local">>}}

EmitterBodies ==
    {NoBody, [NoBody EXCEPT !["Caller-Destination-Number"] = U1001]}

\* generateDialplanXml is called with program e and request body b and returns
\* or throws
EmitterCalled(e, b) ==
    /\ pc = "idle"
    /\ matchedExtension' = e
    /\ body' = b
    /\ result' = DialplanXmlOutcome(<<"default">>, e, b)
    /\ pc' = "done"
    /\ UNCHANGED <<store, admin, calls, parked, gateways, credentials, response,
                   lookupTenant, cnamData, cnamReply, tenant, caught>>

EmitterNext == \E e \in EmitterPrograms, b \in EmitterBodies : EmitterCalled(e, b)

EmitterSpec == Init /\ [][EmitterNext]_vars

\* the program handed to the emitter is malformed: null, without a name, a
\* condition field, an expression or an actions array, or with an element of
\* actions that is null or no object
Malformed(e) ==
    \/ EmitterInvalid(e)
    \/ \E i \in 1..Len(e.actions) : e.actions[i] \in {NullAct, PrimitiveAct}

\* C26: when the emitter receives a malformed extension program (null, missing
\* name, condition_field or expression, actions not an array, or an actions
\* array holding a null or non-object element), it does not throw and emits
\* the standard error program (answer, playback of the cannot-be-completed
\* announcement, hangup) in place of the offender
C26_MalformedProgram ==
    (Done /\ Malformed(matchedExtension)) =>
        /\ ~result.raised
        /\ DocActions(result.doc) = ErrorActions

\* ------------------------------------------------------------------------
\* Two dialplan lookups in flight: while one is suspended at an await the
\* event loop runs the other.  The lookups own their local variables; the
\* undeclared variable tenant of handleInboundCall is one for both.
\* ------------------------------------------------------------------------

\* the local variables of the lookup that is running
Running ==
    [pc |-> pc, body |-> body, lookupTenant |-> lookupTenant, cnamData |-> cnamData,
     cnamReply |-> cnamReply, matchedExtension |-> matchedExtension, caught |-> caught,
     result |-> result]

\* the running lookup stands at an await (or has not started, or has returned)
\* and the event loop resumes the other one
Switch ==
    /\ parked' = Running
    /\ pc' = parked.pc
    /\ body' = parked.body
    /\ lookupTenant' = parked.lookupTenant
    /\ cnamData' = parked.cnamData
    /\ cnamReply' = parked.cnamReply
    /\ matchedExtension' = parked.matchedExtension
    /\ caught' = parked.caught
    /\ result' = parked.result
    /\ UNCHANGED <<store, admin, calls, gateways, credentials, response, tenant>>

\* the requests of the interleaved lookups: inbound calls to DIDs of two
\* tenants, to an inactive DID, without a caller number, and two internal calls
ConcurrentBodies ==
    {MkBody(DomA, <<"public">>, Undef, Undef, Undef, E164(National(k)), CallerNumber, Undef) :
        k \in {"1", "3", "5"}}
    \cup {MkBody(DomB, <<"public">>, Undef, Undef, Undef, E164(National("9")), n, Undef) :
            n \in {CallerNumber, Undef}}
    \cup {MkBody(DomA, <<"default">>, d, Channel(U1001, DomA), Undef, Undef, U1001, Undef) :
            d \in {DialedPstn, U1002}}

ConcurrentNext ==
    \/ \E b \in ConcurrentBodies : Receive(b)
    \/ TenantReadReturns
    \/ TenantReadThrows
    \/ CnamRejects
    \/ \E reply \in CnamReplies : CnamReturns(reply)
    \/ DidReadReturns
    \/ DidReadThrows
    \/ GatewayReadReturns
    \/ GatewayReadThrows
    \/ Deliver
    \/ Switch

ConcurrentSpec == Init /\ [][ConcurrentNext]_vars

\* the extension program a lookup running alone builds for request b when the
\* CNAM service answers reply and no step throws
SoloProgram(b, reply) ==
    LET t == getTenantByDomain(store, LookupDomain(b))
        context == RequestedContext(b)
        d == EffectiveDestination(b)
        outbound == IF OutboundReadsGateways(d) THEN OutboundProgram(gateways, d) ELSE NullExt
    IN  IF IsNullTenant(t) /\ context # <<"public">> THEN NoTenantFound(b)
        ELSE IF context = <<"public">>
        THEN IF Truthy(ActualDidFromTrunk(b))
             THEN InboundProgram(b, CnamFetchValue(reply),
                                 getTenantAndDidByDidNumber(store, ActualDidFromTrunk(b)),
                                 ActualDidFromTrunk(b))
             ELSE PublicNoDidFound(b)
        ELSE IF context = <<"default">>
        THEN IF InterDomain(b) THEN BlockInterdomainCall(b)
             ELSE IF ~IsNullExt(outbound) THEN outbound
             ELSE LocalThenFallback(b, t).ext
        ELSE getNoMatchFallback(Destination(b))

\* the answer a lookup running alone gives to request b, given the reply of
\* the CNAM service and the step that threw, if any
SoloResult(b, reply, thrownAt) ==
    IF thrownAt # "none" THEN LookupCatch(b) ELSE LookupEmit(b, SoloProgram(b, reply))

\* C27: with two dialplan lookups in flight, interleaved at their awaits
\* (tenant read, CNAM call, DID read, gateway read), the answer of each lookup
\* equals the answer it gives running alone on the same request, replies and
\* store; in particular the tenant an inbound-DID program is built from is the
\* one fetched for that request's DID, although handleInboundCall keeps it in
\* a variable all requests share
C27_Isolation ==
    /\ Done => result = SoloResult(body, cnamReply, caught)
    /\ parked.pc = "done" => parked.result = SoloResult(parked.body, parked.cnamReply,
                                                       parked.caught)

\* two inbound lookups for DIDs of different tenants were interleaved: both
\* have answered with a routed program, and the shared variable holds the
\* tenant of the one that read its DID last
C27_Witness ==
    /\ Done /\ caught = "none" /\ InboundDid
    /\ parked.pc = "done" /\ parked.caught = "none"
    /\ RoutingPositions(DocActions(result.doc)) # {}
    /\ RoutingPositions(DocActions(parked.result.doc)) # {}
    /\ ActualDidFromTrunk(parked.body) # ActualDidFromTrunk(body)
    /\ tenant # getTenantAndDidByDidNumber(store, ActualDidFromTrunk(body))

\* ------------------------------------------------------------------------
\* Progress of a lookup.  The steps the handler takes by itself happen: the
\* rejection of lookupCnam ahead of its fetch (signalwireService.js 26-47) and
\* the sending of the finished answer are synchronous code of one event-loop
\* turn.  The replies of the store and of the CNAM service come from outside;
\* the code sets no timeout on either await (signalwireService.js 56-62,
\* tenantService.js 23-26), so nothing makes them arrive.
\* ------------------------------------------------------------------------

LiveNext ==
    \/ \E b \in ConcurrentBodies : Receive(b)
    \/ TenantReadReturns
    \/ TenantReadThrows
    \/ CnamRejects
    \/ \E reply \in CnamReplies : CnamReturns(reply)
    \/ DidReadReturns
    \/ DidReadThrows
    \/ GatewayReadReturns
    \/ GatewayReadThrows
    \/ Deliver

LiveSpec ==
    /\ Init
    /\ [][LiveNext]_vars
    /\ WF_vars(CnamRejects)
    /\ WF_vars(Deliver)

\* C28: every dialplan request eventually receives a response; in particular
\* when the CNAM service never replies the inbound-DID handler still goes on
\* to route the call
C28_EventuallyAnswered == [](pc = "cnam" => <>Done)

\* ------------------------------------------------------------------------
\* C29
\* ------------------------------------------------------------------------

\* the characters that end or corrupt a double-quoted attribute value
AttributeBreaking == {"\"", "<", "&"}

\* a string holds such a character as it stands
Breaks(s) == \E i \in 1..Len(String(s)) : String(s)[i] \in AttributeBreaking

\* the values of the request in progress that the caller or the trunk chooses
RequestControlled ==
    {body["Caller-Destination-Number"], body["destination_number"],
     body["variable_sip_to_user"], body["variable_sip_dest_user"],
     body["Caller-Caller-ID-Name"], body["Caller-Caller-ID-Number"]}

\* the fields of the program in progress that generateDialplanXml writes
\* between double quotes as they are
VerbatimFields ==
    {Program.expression} \cup {Program.actions[i].data : i \in 1..Len(Program.actions)}

\* C29 as stated: when a request-controlled value (destination number, trunk
\* DID hint, caller-ID name or number) holds a double quote, "<" or "&", no
\* expression or action data of the emitted program holds such a character.
C29_NoAttributeBreak ==
    (Done /\ caught = "none" /\ \E v \in RequestControlled : Breaks(v)) =>
        \A f \in VerbatimFields : ~Breaks(f)

\* ------------------------------------------------------------------------
\* C30
\* ------------------------------------------------------------------------

\* a tenant whose number 512-555-0001 was stored in E.164 form, switched off,
\* and stored again in national form with another target; its other DIDs are
\* active
TenantDormant ==
    [TenantA EXCEPT !.dids =
        <<Did(E164(National("1")), FALSE, <<"extension">>, U1002, Undef, Undef),
          Did(National("1"), TRUE, <<"extension">>, U1001, Undef, Undef),
          Did(E164(National("2")), FALSE, <<"extension">>, U1003, Undef, Undef),
          Did(E164(National("3")), TRUE, <<"group">>, Sales, Undef, Undef)>>]

DormantInit ==
    /\ store = <<TenantDormant, TenantB>>
    /\ gateways \in GatewayPools
    /\ credentials \in BOOLEAN
    /\ pc = "idle"
    /\ body = NoBody
    /\ lookupTenant = NullTenant
    /\ cnamData = NullCnam
    /\ cnamReply = NoReply
    /\ tenant = NullTenant
    /\ matchedExtension = NullExt
    /\ caught = "none"
    /\ result = Answer(<<>>)
    /\ response = NoResponse
    /\ admin = NoAdmin
    /\ calls = NoCalls
    /\ parked = NoLookup

\* calls from the trunk to the tenant's numbers in both forms, and a local
\* call to the PSTN
DormantBodies ==
    {MkBody(DomA, <<"public">>, Undef, Undef, Undef, h, n, Undef) :
        h \in {National("1"), E164(National("1")), E164(National("2")), E164(National("3"))},
        n \in {CallerNumber, Undef}}
    \cup {MkBody(DomA, <<"default">>, DialedPstn, Channel(U1001, DomA), Undef, Undef, U1001, Undef)}

DormantNext ==
    \/ \E b \in DormantBodies : Receive(b)
    \/ TenantReadReturns
    \/ TenantReadThrows
    \/ CnamRejects
    \/ \E reply \in CnamReplies : CnamReturns(reply)
    \/ DidReadReturns
    \/ DidReadThrows
    \/ GatewayReadReturns
    \/ GatewayReadThrows
    \/ Deliver

DormantSpec == DormantInit /\ [][DormantNext]_vars

\* C30 as stated: an inbound call never gets a bridge or transfer to the
\* routing target of a DID stored with active = false, also when the tenant
\* holds other DIDs that are active: the DID whose target an inbound program
\* routes to is active.
C30_InactiveNeverRouted == InboundRouted => InboundMatchedDid.active

====
